---- MODULE Spec2Model ----
(***************************************************************************)
(* The widgets of the portfolio page as state machines over the DOM state  *)
(* they read and write:                                                    *)
(*   Spec      DragDropManager (src/unnamed/part_005), the drag/reposition *)
(*             controller                                                  *)
(*   SpecMenu  MenuDropdown (components/menu/MenuDropdown.ts and .js)      *)
(*   SpecBoot  the DOMContentLoaded handler of main.ts                     *)
(*                                                                         *)
(* Lengths are integers in HALF PIXELS, so that the fractional positions   *)
(* the code can produce (getBoundingClientRect is fractional) and          *)
(* Math.round are modelled exactly: 21 stands for 10.5px.                   *)
(* A DOM attribute or inline style that may be absent is a sequence:       *)
(* <<>> when absent, <<v>> when present with value v.                       *)
(***************************************************************************)
EXTENDS Integers, Sequences, FiniteSets, TLC

(* ------------------------------ bounds -------------------------------- *)

\* number of .draggable-item elements inside the container
NumItems == 2

Items == 1..NumItems

(* ------------------------- program constants -------------------------- *)

\* DRAG_CONTAINER.layout.desktopBreakpoint (px)
DesktopBreakpoint == 768
\* DRAG_CONTAINER.keyboard.moveStep (px)
MoveStep == 10
\* DRAG_CONTAINER.keyboard.fastMoveStep (px)
FastMoveStep == 50

(* ------------------------------ helpers ------------------------------- *)

Absent == <<>>

Max(a, b) == IF a >= b THEN a ELSE b
Min(a, b) == IF a <= b THEN a ELSE b

\* n pixels, in half pixels
Px(n) == 2 * n

\* Math.round on a length in half pixels; the result is in whole pixels
\* (Math.round rounds halves up: 7.5 -> 8, -0.5 -> 0)
MathRound(h) == (h + 1) \div 2

\* parseFloat(item.style.left) || 0 : an unset inline style parses to NaN
ParseFloatOr0(style) == IF style = Absent THEN 0 ELSE style[1]

\* `${dataLeft}px` assigned to style.left: the attribute holds whole pixels
StyleOfData(data) == <<Px(data[1])>>

\* a variant that truncates where the code rounds
DataOfLengthTruncated(h) == <<h \div 2>>

\* Math.round(left).toString() written to data-x / data-y
DataOfLength(h) == <<MathRound(h)>>

\* Math.max(0, Math.min(v, containerSize - itemSize))
Clamp(v, containerSize, itemSize) == Max(0, Min(v, containerSize - itemSize))

(* --------------------------- input domains ---------------------------- *)

\* window.innerWidth values (px): at the breakpoint, and above it
Widths == {DesktopBreakpoint, 1024}

\* container and item boxes (half pixels): cw/ch container width/height,
\* iw/ih item width/height, cLeft/cTop the container's client origin.
\*  1: 110.5px x 100px container, 100px x 100px items: a fractional slack of
\*     10.5px on x, none on y
\*  2: 90px x 110px container, 100px x 100px items: the item is wider than
\*     the container, with a slack of 10px on y
Geometries ==
  { [cw |-> 221, ch |-> 200, iw |-> 200, ih |-> 200, cLeft |-> 16, cTop |-> 0],
    [cw |-> 180, ch |-> 220, iw |-> 200, ih |-> 200, cLeft |-> 16, cTop |-> 0] }

\* the documents a controller is constructed on: with the container and the
\* wrapper inside it, with a container that has no wrapper, and with neither
\* (the wrapper is looked up inside the container)
Documents ==
  { [container |-> TRUE, wrapper |-> TRUE],
    [container |-> TRUE, wrapper |-> FALSE],
    [container |-> FALSE, wrapper |-> FALSE] }

\* the data-x / data-y pairs (whole px) the items carry in the served HTML:
\*  page 1: the first item in range, the others without attributes
\*  page 2: the first item out of range, the others with data-x only
Pages ==
  { [i \in Items |-> IF i = 1 THEN <<(<<10>>), (<<0>>)>>
                              ELSE <<Absent, Absent>>],
    [i \in Items |-> IF i = 1 THEN <<(<<500>>), (<<0>>)>>
                              ELSE <<(<<10>>), Absent>>] }

\* where inside the item the pointer goes down (half pixels from its corner)
GrabPoints == { <<Px(5), Px(5)>> }

\* pointer positions of move events (clientX, clientY in half pixels)
PointerPositions ==
  { <<0, 0>>, <<Px(23), Px(500)>>, <<Px(500), Px(5)>> }

ArrowKeys == {"ArrowLeft", "ArrowRight", "ArrowUp", "ArrowDown"}

\* keydown events as <<key, shiftKey>>
KeyInputs ==
  ({"Enter", " ", "Escape", "Tab"} \X {FALSE}) \cup (ArrowKeys \X BOOLEAN)

\* the element a pointer-down lands on: its tagName and the tagNames of its
\* ancestors up to, not including, the item (innermost first)
Targets ==
  { [tag |-> "DIV", anc |-> <<>>],              \* the item itself
    [tag |-> "BUTTON", anc |-> <<>>],           \* a button in the item
    [tag |-> "SPAN", anc |-> <<"LI", "A">>] }   \* text nested inside a link

(* ------------------------------- state -------------------------------- *)

VARIABLES
  page,               \* which of the elements the constructor queries exist
  warnings,           \* the number of console.warn calls made
  destroyed,          \* destroy() has been called
  geom,               \* the boxes getBoundingClientRect reports
  innerWidth,         \* window.innerWidth (px)
  isInitialized,      \* this.isInitialized
  isDesktop,          \* this.isDesktop
  wrapper,            \* the wrapper's classList: [desktop, mobile]
  items,              \* this.items: per item, its styles, attributes, classes
                      \* and the listeners registered on it
  dragState,          \* this.dragState; currentItem 0 is null
  keyboardDragState,  \* this.keyboardDragState; currentItem 0 is null
  listeners,          \* [resize, document]: window / document registrations
  announcer,          \* the live region is in the document
  instructions,       \* the number of #drag-instructions nodes in the document
  last,               \* the handler that ran last, with its event's inputs
  menu,               \* a MenuDropdown instance and the elements it works on
  menuLast,           \* the MenuDropdown handler or method that ran last
  boot,               \* the run of main.ts's DOMContentLoaded handler
  clock,              \* the time display: its elements, the time, its timer
  sticky,             \* a StickyNotesManager instance and its notes
  live,               \* the live region's text and the pending timeouts
  grab,               \* where the pointer and the item were at pointer-down
  win,                \* a CollapsibleWindow instance and its elements
  list                \* the drag list: its items in display order

\* the variables of the DragDropManager, of the MenuDropdown and of the page
\* initialization
dragVars == <<page, warnings, destroyed, geom, innerWidth, isInitialized,
              isDesktop, wrapper, items, dragState, keyboardDragState,
              listeners, announcer, instructions, last, live, grab>>
menuVars == <<menu, menuLast>>
bootVars == <<boot>>
timeVars == <<clock>>
stickyVars == <<sticky>>
windowVars == <<win>>
listVars == <<list>>

vars == <<dragVars, menuVars, bootVars, timeVars, stickyVars, windowVars,
          listVars>>

NoDrag == [isDragging |-> FALSE, currentItem |-> 0, offset |-> <<0, 0>>]
NoKeyboardDrag == [isKeyboardDragging |-> FALSE, currentItem |-> 0]

NoTarget == [tag |-> "", anc |-> <<>>]

\* a message passed to announce(): "Item <index> grabbed. ..." or
\* "Item <index> dropped at position <x>, <y>."
NoMessage == [kind |-> "", index |-> 0, x |-> 0, y |-> 0]

\* the record kept in last: ev the handler ("pointerdown" is handleMouseDown
\* or handleTouchStart, "pointermove" handleMouseMove or handleTouchMove,
\* "pointerup" handleMouseUp or handleTouchEnd), item the item the event was
\* delivered to (0: the document or the window), owner the current item of the
\* session the handler works on as it was when the handler started, shift the
\* event's shiftKey if the handler read it, crossed whether a resize changed
\* the viewport mode, msg the message the handler passed to announce(), before
\* the items' inline <<left, top>> as a resize that entered mobile found them,
\* again whether a destroy() call followed an earlier one, pointer the
\* position of a pointer move (kept only where grab is followed)
NoEvent ==
  [ev |-> "", item |-> 0, owner |-> 0, key |-> "", shift |-> FALSE,
   target |-> NoTarget, crossed |-> FALSE, msg |-> NoMessage,
   before |-> <<>>, again |-> FALSE, pointer |-> <<0, 0>>]

\* an item as served: no inline position, only the data attributes
ServedItem(data) ==
  [left |-> Absent, top |-> Absent, dataX |-> data[1], dataY |-> data[2],
   dragging |-> FALSE, keyboardDragging |-> FALSE, grabbed |-> Absent,
   tabindex |-> Absent, role |-> Absent, ariaLabel |-> Absent,
   describedby |-> Absent, keydown |-> FALSE, pointer |-> FALSE]

(* ------------------------------- layout ------------------------------- *)

\* a variant that counts a width equal to the breakpoint as desktop
updateViewportModeInclusive(width) == width >= DesktopBreakpoint

\* updateViewportMode
updateViewportMode(width) == width > DesktopBreakpoint

\* applyLayout: two classList.toggle(name, force) calls
applyLayout(desktop) == [desktop |-> desktop, mobile |-> ~desktop]

\* a variant that reads the two attributes the wrong way round
positionItemSwapped(it) ==
  IF it.dataX # Absent /\ it.dataY # Absent
  THEN [it EXCEPT !.left = StyleOfData(it.dataY), !.top = StyleOfData(it.dataX)]
  ELSE it

\* positionItems, for one item
positionItem(it) ==
  IF it.dataX # Absent /\ it.dataY # Absent
  THEN [it EXCEPT !.left = StyleOfData(it.dataX), !.top = StyleOfData(it.dataY)]
  ELSE it

positionItems(its) == [i \in Items |-> positionItem(its[i])]

\* bindDragEvents, the item part: mousedown and touchstart on every item
bindDragEvents(its) == [i \in Items |-> [its[i] EXCEPT !.pointer = TRUE]]

\* makeItemsAccessible; index is the 0-based forEach index
makeItemsAccessible(its) ==
  [i \in Items |->
     LET index == i - 1 IN
     [its[i] EXCEPT !.tabindex = <<0>>, !.role = <<"button">>,
                    !.ariaLabel = <<index + 1>>,
                    !.describedby = <<"drag-instructions">>,
                    !.keydown = TRUE]]

\* getOrCreateInstructions: the number of #drag-instructions nodes after a
\* call that found n of them
getOrCreateInstructions(n) == IF n > 0 THEN n ELSE n + 1

\* the number of #drag-instructions nodes after makeItemsAccessible has
\* called getOrCreateInstructions for k items, starting from n
RECURSIVE instructionsCreated(_, _)
instructionsCreated(k, n) ==
  IF k = 0 THEN n ELSE instructionsCreated(k - 1, getOrCreateInstructions(n))

\* destroy: the node getElementById finds, if any, is removed
removeInstructions(n) == IF n > 0 THEN n - 1 ELSE n

\* handleResize, the branch entering mobile
clearItems(its) ==
  [i \in Items |->
     [its[i] EXCEPT !.left = Absent, !.top = Absent, !.tabindex = Absent,
                    !.role = Absent, !.ariaLabel = Absent,
                    !.describedby = Absent, !.grabbed = Absent]]

\* what init() and handleResize() do to the items on entering desktop
enterDesktop(its) == makeItemsAccessible(bindDragEvents(positionItems(its)))

(* ------------------- the other widgets, when unused ------------------- *)

\* no MenuDropdown has been constructed
NoMenu == [impl |-> "", isInitialized |-> FALSE]
NoMenuEvent == [ev |-> ""]

\* the DOMContentLoaded handler is not running
NoBoot == [phase |-> ""]

\* TimeDisplay has not been called
NoClock == [ev |-> ""]

\* the live region of a controller whose announcements are not followed.
\* tracked: the region's text and the timeouts are followed; text: the
\* region's textContent (NoMessage: the empty string); pending: the messages
\* of the timeouts not yet run, oldest first; latest: the message of the most
\* recent announce() call; overlapped: an announce() call found a timeout
\* pending
NoLive ==
  [tracked |-> FALSE, text |-> NoMessage, pending |-> <<>>,
   latest |-> NoMessage, overlapped |-> FALSE]

\* the pointer-down that began the current or the last pointer drag is not
\* followed.  tracked: it is followed; item: the item it began to drag;
\* pointer: its clientX and clientY; corner: the item's client left and top
\* as it found them
NoGrab ==
  [tracked |-> FALSE, item |-> 0, pointer |-> <<0, 0>>, corner |-> <<0, 0>>]

\* no StickyNotesManager has been constructed
NoSticky == [ev |-> ""]

\* no CollapsibleWindow has been constructed
NoWindow == [ev |-> ""]

\* initDragList has not been called
NoList == [ev |-> ""]

(* -------------------------------- Init -------------------------------- *)

\* a variant of the constructor's check that looks for the container only
constructionFailsContainerOnly(doc) == ~doc.container

\* the constructor's check after cacheDom: !this.container || !this.wrapper
constructionFails(doc) == ~doc.container \/ ~doc.wrapper

\* the state the constructor leaves.  When the check fails it warns once and
\* returns before bindHandlers and init: every field keeps its initializer
\* and the document is as served.
\* the state the constructor leaves on the document doc with boxes g, at
\* window width w, with the items' data attributes as in data
constructed(doc, g, w, data) ==
    LET served == [i \in Items |-> ServedItem(data[i])]
        ok == ~constructionFails(doc)
        desktop == ok /\ updateViewportMode(w)
    IN /\ page = doc
       /\ warnings = IF ok THEN 0 ELSE 1
       /\ destroyed = FALSE
       /\ geom = g
       /\ innerWidth = w
       /\ isInitialized = ok
       /\ isDesktop = desktop
       /\ wrapper = IF ok THEN applyLayout(desktop)
                          ELSE [desktop |-> FALSE, mobile |-> FALSE]
       /\ items = IF desktop THEN enterDesktop(served) ELSE served
       /\ dragState = NoDrag
       /\ keyboardDragState = NoKeyboardDrag
       /\ listeners = [resize |-> ok, document |-> desktop]
       /\ announcer = ok
       /\ instructions = IF desktop THEN instructionsCreated(NumItems, 0) ELSE 0
       /\ last = [NoEvent EXCEPT !.ev = "construct"]

\* the other widgets are not on the page
NoOtherWidgets ==
  /\ menu = NoMenu /\ menuLast = NoMenuEvent
  /\ boot = NoBoot
  /\ clock = NoClock /\ sticky = NoSticky
  /\ win = NoWindow /\ list = NoList

Init ==
  \E doc \in Documents, g \in Geometries, w \in Widths, data \in Pages :
    /\ constructed(doc, g, w, data)
    /\ live = NoLive /\ grab = NoGrab
    /\ NoOtherWidgets

(* --------------------------- pointer drag ----------------------------- *)

\* item.getBoundingClientRect() as <<left, top>>: an item sits at its inline
\* offset from the container's origin, an unpositioned one at the origin
itemRect(i) ==
  <<geom.cLeft + ParseFloatOr0(items[i].left),
    geom.cTop + ParseFloatOr0(items[i].top)>>

ClickableTags == {"A", "BUTTON", "INPUT", "TEXTAREA", "SELECT"}

\* el.closest('a, button, input, textarea, select') !== null
closest(el) ==
  \/ el.tag \in ClickableTags
  \/ \E k \in 1..Len(el.anc) : el.anc[k] \in ClickableTags

\* a variant that looks at the target's own tag only
isClickableElementOwnTag(el) == el.tag \in ClickableTags

isClickableElement(el) == el.tag \in ClickableTags \/ closest(el)

\* a variant that starts a pointer session in either viewport mode
startDragAnyMode(i, x, y) ==
  LET rect == itemRect(i) IN
  /\ dragState' = [isDragging |-> TRUE, currentItem |-> i,
                   offset |-> <<x - rect[1], y - rect[2]>>]
  /\ items' = [items EXCEPT ![i].dragging = TRUE,
                            ![i].grabbed = <<"true">>]

\* what startDrag saw when it began a drag of item i at (x, y)
grabbedAt(i, x, y) ==
  IF ~grab.tracked THEN grab
  ELSE [grab EXCEPT !.item = i, !.pointer = <<x, y>>, !.corner = itemRect(i)]

startDrag(i, x, y) ==
  IF ~isDesktop
  THEN UNCHANGED <<dragState, items>>
  ELSE LET rect == itemRect(i) IN
       /\ dragState' = [isDragging |-> TRUE, currentItem |-> i,
                        offset |-> <<x - rect[1], y - rect[2]>>]
       /\ items' = [items EXCEPT ![i].dragging = TRUE,
                                 ![i].grabbed = <<"true">>]

handleMouseDown(i, target, x, y) ==
  IF isClickableElement(target)
  THEN UNCHANGED <<dragState, items>>
  ELSE startDrag(i, x, y)

handleTouchStart(i, target, x, y) ==
  IF isClickableElement(target)
  THEN UNCHANGED <<dragState, items>>
  ELSE startDrag(i, x, y)

\* a variant that keeps the item right of and below the origin only
moveItemNoUpperClamp(x, y) ==
  IF dragState.currentItem = 0
  THEN items
  ELSE LET left == Max(0, x - dragState.offset[1] - geom.cLeft)
           top == Max(0, y - dragState.offset[2] - geom.cTop)
       IN [items EXCEPT ![dragState.currentItem] =
             [@ EXCEPT !.left = <<left>>, !.top = <<top>>,
                       !.dataX = DataOfLength(left),
                       !.dataY = DataOfLength(top)]]

\* a variant that places the item's corner under the pointer
moveItemIgnoresOffset(x, y) ==
  IF dragState.currentItem = 0
  THEN items
  ELSE LET left == Clamp(x - geom.cLeft, geom.cw, geom.iw)
           top == Clamp(y - geom.cTop, geom.ch, geom.ih)
       IN [items EXCEPT ![dragState.currentItem] =
             [@ EXCEPT !.left = <<left>>, !.top = <<top>>,
                       !.dataX = DataOfLength(left),
                       !.dataY = DataOfLength(top)]]

\* moveItem: the items after the dragged item is moved to the pointer
moveItem(x, y) ==
  IF dragState.currentItem = 0
  THEN items
  ELSE LET left == Clamp(x - dragState.offset[1] - geom.cLeft, geom.cw, geom.iw)
           top == Clamp(y - dragState.offset[2] - geom.cTop, geom.ch, geom.ih)
       IN [items EXCEPT ![dragState.currentItem] =
             [@ EXCEPT !.left = <<left>>, !.top = <<top>>,
                       !.dataX = DataOfLength(left),
                       !.dataY = DataOfLength(top)]]

handleMouseMove(x, y) ==
  items' = IF ~dragState.isDragging THEN items ELSE moveItem(x, y)

handleTouchMove(x, y) ==
  items' = IF ~dragState.isDragging THEN items ELSE moveItem(x, y)

\* a variant that clears the session and leaves the item marked
endDragKeepsMarks ==
  /\ items' = items
  /\ dragState' = NoDrag

endDrag ==
  /\ items' = IF dragState.currentItem # 0
              THEN [items EXCEPT ![dragState.currentItem].dragging = FALSE,
                                 ![dragState.currentItem].grabbed = <<"false">>]
              ELSE items
  /\ dragState' = NoDrag

handleMouseUp == endDrag

handleTouchEnd == endDrag

(* --------------------------- keyboard drag ---------------------------- *)

startKeyboardDrag(i) ==
  /\ keyboardDragState' = [isKeyboardDragging |-> TRUE, currentItem |-> i]
  /\ items' = [items EXCEPT ![i].keyboardDragging = TRUE,
                            ![i].grabbed = <<"true">>]

\* moveItemKeyboard: the items after the session's item moved by the deltas
moveItemKeyboard(deltaX, deltaY) ==
  IF keyboardDragState.currentItem = 0
  THEN items
  ELSE LET item == items[keyboardDragState.currentItem]
           currentLeft == ParseFloatOr0(item.left)
           currentTop == ParseFloatOr0(item.top)
           newLeft == Clamp(currentLeft + deltaX, geom.cw, geom.iw)
           newTop == Clamp(currentTop + deltaY, geom.ch, geom.ih)
       IN [items EXCEPT ![keyboardDragState.currentItem] =
             [@ EXCEPT !.left = <<newLeft>>, !.top = <<newTop>>,
                       !.dataX = DataOfLength(newLeft),
                       !.dataY = DataOfLength(newTop)]]

\* a variant that leaves aria-grabbed as it is
endKeyboardDragKeepsGrabbed ==
  IF keyboardDragState.currentItem = 0
  THEN UNCHANGED <<keyboardDragState, items>>
  ELSE /\ items' = [items EXCEPT
                      ![keyboardDragState.currentItem].keyboardDragging = FALSE]
       /\ keyboardDragState' = NoKeyboardDrag

endKeyboardDrag ==
  IF keyboardDragState.currentItem = 0
  THEN UNCHANGED <<keyboardDragState, items>>
  ELSE /\ items' = [items EXCEPT
                      ![keyboardDragState.currentItem].keyboardDragging = FALSE,
                      ![keyboardDragState.currentItem].grabbed = <<"false">>]
       /\ keyboardDragState' = NoKeyboardDrag

\* startKeyboardDrag's announcement; index is indexOf(item) + 1
grabbedMessage(i) == [kind |-> "grabbed", index |-> i, x |-> 0, y |-> 0]

\* endKeyboardDrag's announcement: the session's item and Math.round of its
\* inline left and top, each read as parseFloat(..) || 0
droppedMessage ==
  LET item == keyboardDragState.currentItem
      left == MathRound(ParseFloatOr0(items[item].left))
      top == MathRound(ParseFloatOr0(items[item].top))
  IN [kind |-> "dropped", index |-> item, x |-> left, y |-> top]

\* the message handleKeyDown passes to announce(), if any
announced(i, key) ==
  IF ~isDesktop
  THEN NoMessage
  ELSE IF key = "Enter" \/ key = " "
  THEN IF keyboardDragState.isKeyboardDragging
       THEN IF keyboardDragState.currentItem = 0 THEN NoMessage
                                                 ELSE droppedMessage
       ELSE grabbedMessage(i)
  ELSE IF /\ key = "Escape" /\ keyboardDragState.isKeyboardDragging
          /\ keyboardDragState.currentItem # 0
  THEN droppedMessage
  ELSE NoMessage

\* whether handleKeyDown gets as far as reading e.shiftKey
readsShiftKey(i, key) ==
  /\ isDesktop
  /\ key \notin {"Enter", " ", "Escape"}
  /\ keyboardDragState.isKeyboardDragging
  /\ keyboardDragState.currentItem = i

\* a variant that ignores the Shift key
keyStepIgnoresShift(shift) == Px(MoveStep)

\* the step an arrow key moves by, in half pixels
keyStep(shift) == IF shift THEN Px(FastMoveStep) ELSE Px(MoveStep)

\* a variant in which an activation key always starts a session
handleKeyDownAlwaysStarts(i, key, shift) ==
  IF ~isDesktop
  THEN UNCHANGED <<keyboardDragState, items>>
  ELSE IF key = "Enter" \/ key = " "
  THEN startKeyboardDrag(i)
  ELSE IF key = "Escape" /\ keyboardDragState.isKeyboardDragging
  THEN endKeyboardDrag
  ELSE UNCHANGED <<keyboardDragState, items>>

\* a variant in which Tab, the key that moves focus away, ends the session
handleKeyDownTabEnds(i, key, shift) ==
  IF ~isDesktop
  THEN UNCHANGED <<keyboardDragState, items>>
  ELSE IF key = "Enter" \/ key = " "
  THEN IF keyboardDragState.isKeyboardDragging
       THEN endKeyboardDrag
       ELSE startKeyboardDrag(i)
  ELSE IF key \in {"Escape", "Tab"} /\ keyboardDragState.isKeyboardDragging
  THEN endKeyboardDrag
  ELSE IF keyboardDragState.isKeyboardDragging
          /\ keyboardDragState.currentItem = i
  THEN /\ UNCHANGED keyboardDragState
       /\ items' = CASE key = "ArrowLeft" -> moveItemKeyboard(-keyStep(shift), 0)
                     [] key = "ArrowRight" -> moveItemKeyboard(keyStep(shift), 0)
                     [] key = "ArrowUp" -> moveItemKeyboard(0, -keyStep(shift))
                     [] key = "ArrowDown" -> moveItemKeyboard(0, keyStep(shift))
                     [] OTHER -> items
  ELSE UNCHANGED <<keyboardDragState, items>>

handleKeyDown(i, key, shift) ==
  IF ~isDesktop
  THEN UNCHANGED <<keyboardDragState, items>>
  ELSE IF key = "Enter" \/ key = " "
  THEN IF keyboardDragState.isKeyboardDragging
       THEN endKeyboardDrag
       ELSE startKeyboardDrag(i)
  ELSE IF key = "Escape" /\ keyboardDragState.isKeyboardDragging
  THEN endKeyboardDrag
  ELSE IF keyboardDragState.isKeyboardDragging
          /\ keyboardDragState.currentItem = i
  THEN /\ UNCHANGED keyboardDragState
       /\ items' = CASE key = "ArrowLeft" -> moveItemKeyboard(-keyStep(shift), 0)
                     [] key = "ArrowRight" -> moveItemKeyboard(keyStep(shift), 0)
                     [] key = "ArrowUp" -> moveItemKeyboard(0, -keyStep(shift))
                     [] key = "ArrowDown" -> moveItemKeyboard(0, keyStep(shift))
                     [] OTHER -> items
  ELSE UNCHANGED <<keyboardDragState, items>>

(* ----------------------------- announcer ------------------------------ *)

\* the number of timeouts that may be pending at once
MaxPending == 2

\* a variant that sets the message at once
announceAtOnce(l, message) ==
  IF ~isInitialized \/ ~l.tracked
  THEN l
  ELSE [l EXCEPT !.text = message, !.latest = message,
                 !.overlapped = @ \/ l.pending # <<>>]

\* announce(message): this.announcer is set once init() has run
announce(l, message) ==
  IF ~isInitialized \/ ~l.tracked
  THEN l
  ELSE [l EXCEPT !.text = NoMessage, !.pending = Append(@, message),
                 !.latest = message, !.overlapped = @ \/ l.pending # <<>>]

\* the callback announce() passed to setTimeout
announceTimeout(l) ==
  IF ~isInitialized
  THEN [l EXCEPT !.pending = Tail(@)]
  ELSE [l EXCEPT !.text = Head(l.pending), !.pending = Tail(@)]

(* ------------------------- resize and teardown ------------------------ *)

\* a variant that applies the layout of the mode on every resize
handleResizeAlways(w) ==
  LET nowDesktop == updateViewportMode(w)
  IN /\ isDesktop' = nowDesktop
     /\ wrapper' = applyLayout(nowDesktop)
     /\ IF nowDesktop
        THEN /\ items' = enterDesktop(items)
             /\ listeners' = [listeners EXCEPT !.document = TRUE]
             /\ instructions' = instructionsCreated(NumItems, instructions)
        ELSE /\ items' = clearItems(items)
             /\ UNCHANGED <<listeners, instructions>>

\* handleResize, run with window.innerWidth already w
handleResize(w) ==
  LET wasDesktop == isDesktop
      nowDesktop == updateViewportMode(w)
  IN /\ isDesktop' = nowDesktop
     /\ IF wasDesktop # nowDesktop
        THEN /\ wrapper' = applyLayout(nowDesktop)
             /\ IF nowDesktop
                THEN /\ items' = enterDesktop(items)
                     /\ listeners' = [listeners EXCEPT !.document = TRUE]
                     /\ instructions' = instructionsCreated(NumItems, instructions)
                ELSE /\ items' = clearItems(items)
                     /\ UNCHANGED <<listeners, instructions>>
        ELSE UNCHANGED <<wrapper, items, listeners, instructions>>

\* a variant that leaves the instructions node in the document
destroyKeepsInstructions ==
  IF ~isInitialized
  THEN UNCHANGED <<listeners, items, announcer, instructions>>
  ELSE /\ listeners' = [resize |-> FALSE, document |-> FALSE]
       /\ items' = [i \in Items |-> [items[i] EXCEPT !.keydown = FALSE]]
       /\ announcer' = FALSE
       /\ UNCHANGED instructions

\* a variant that removes one item's keydown listener per call
destroyOneItemPerCall ==
  IF ~isInitialized
  THEN UNCHANGED <<listeners, items, announcer, instructions>>
  ELSE /\ listeners' = [resize |-> FALSE, document |-> FALSE]
       /\ items' = IF \E i \in Items : items[i].keydown
                   THEN LET first == CHOOSE i \in Items :
                                       /\ items[i].keydown
                                       /\ \A j \in Items :
                                            items[j].keydown => i <= j
                        IN [items EXCEPT ![first].keydown = FALSE]
                   ELSE items
       /\ announcer' = FALSE
       /\ instructions' = removeInstructions(instructions)

destroy ==
  IF ~isInitialized
  THEN UNCHANGED <<listeners, items, announcer, instructions>>
  ELSE /\ listeners' = [resize |-> FALSE, document |-> FALSE]
       /\ items' = [i \in Items |-> [items[i] EXCEPT !.keydown = FALSE]]
       /\ announcer' = FALSE
       /\ instructions' = removeInstructions(instructions)

(* ------------------------------- events ------------------------------- *)
\* One action per handler invocation: an event reaches a handler only while
\* the handler is registered on the event's target.

MouseDown ==
  \E i \in Items, t \in Targets, gp \in GrabPoints :
    /\ items[i].pointer
    /\ handleMouseDown(i, t, itemRect(i)[1] + gp[1], itemRect(i)[2] + gp[2])
    /\ grab' = IF isClickableElement(t) \/ ~isDesktop THEN grab
                ELSE grabbedAt(i, itemRect(i)[1] + gp[1], itemRect(i)[2] + gp[2])
    /\ last' = [NoEvent EXCEPT !.ev = "pointerdown", !.item = i, !.target = t]
    /\ UNCHANGED <<menuVars, bootVars, timeVars, stickyVars, windowVars, listVars,
                   live, page, warnings, destroyed, geom, innerWidth, isInitialized, isDesktop, wrapper,
                   keyboardDragState, listeners, announcer, instructions>>

TouchStart ==
  \E i \in Items, t \in Targets, gp \in GrabPoints :
    /\ items[i].pointer
    /\ handleTouchStart(i, t, itemRect(i)[1] + gp[1], itemRect(i)[2] + gp[2])
    /\ grab' = IF isClickableElement(t) \/ ~isDesktop THEN grab
                ELSE grabbedAt(i, itemRect(i)[1] + gp[1], itemRect(i)[2] + gp[2])
    /\ last' = [NoEvent EXCEPT !.ev = "pointerdown", !.item = i, !.target = t]
    /\ UNCHANGED <<menuVars, bootVars, timeVars, stickyVars, windowVars, listVars,
                   live, page, warnings, destroyed, geom, innerWidth, isInitialized, isDesktop, wrapper,
                   keyboardDragState, listeners, announcer, instructions>>

MouseMove ==
  \E p \in PointerPositions :
    /\ listeners.document
    /\ handleMouseMove(p[1], p[2])
    /\ last' = [NoEvent EXCEPT !.ev = "pointermove",
                               !.owner = dragState.currentItem,
                               !.pointer = IF grab.tracked THEN p ELSE <<0, 0>>]
    /\ UNCHANGED <<menuVars, bootVars, timeVars, stickyVars, windowVars, listVars,
                   live, grab, page, warnings, destroyed, geom, innerWidth, isInitialized, isDesktop, wrapper,
                   dragState, keyboardDragState, listeners, announcer,
                   instructions>>

TouchMove ==
  \E p \in PointerPositions :
    /\ listeners.document
    /\ handleTouchMove(p[1], p[2])
    /\ last' = [NoEvent EXCEPT !.ev = "pointermove",
                               !.owner = dragState.currentItem,
                               !.pointer = IF grab.tracked THEN p ELSE <<0, 0>>]
    /\ UNCHANGED <<menuVars, bootVars, timeVars, stickyVars, windowVars, listVars,
                   live, grab, page, warnings, destroyed, geom, innerWidth, isInitialized, isDesktop, wrapper,
                   dragState, keyboardDragState, listeners, announcer,
                   instructions>>

MouseUp ==
  /\ listeners.document
  /\ handleMouseUp
  /\ last' = [NoEvent EXCEPT !.ev = "pointerup", !.owner = dragState.currentItem]
  /\ UNCHANGED <<menuVars, bootVars, timeVars, stickyVars, windowVars, listVars,
                   live, grab, page, warnings, destroyed, geom, innerWidth, isInitialized, isDesktop, wrapper,
                 keyboardDragState, listeners, announcer, instructions>>

TouchEnd ==
  /\ listeners.document
  /\ handleTouchEnd
  /\ last' = [NoEvent EXCEPT !.ev = "pointerup", !.owner = dragState.currentItem]
  /\ UNCHANGED <<menuVars, bootVars, timeVars, stickyVars, windowVars, listVars,
                   live, grab, page, warnings, destroyed, geom, innerWidth, isInitialized, isDesktop, wrapper,
                 keyboardDragState, listeners, announcer, instructions>>

KeyDown ==
  \E i \in Items, k \in KeyInputs :
    /\ items[i].keydown
    /\ announced(i, k[1]) # NoMessage => Len(live.pending) < MaxPending
    /\ handleKeyDown(i, k[1], k[2])
    /\ live' = IF announced(i, k[1]) = NoMessage THEN live
                ELSE announce(live, announced(i, k[1]))
    /\ last' = [NoEvent EXCEPT !.ev = "keydown", !.item = i, !.key = k[1],
                               !.shift = (k[2] /\ readsShiftKey(i, k[1])),
                               !.owner = keyboardDragState.currentItem,
                               !.msg = announced(i, k[1])]
    /\ UNCHANGED <<menuVars, bootVars, timeVars, stickyVars, windowVars, listVars,
                   grab, page, warnings, destroyed, geom, innerWidth, isInitialized, isDesktop, wrapper,
                   dragState, listeners, announcer, instructions>>

\* the window is resized to width w; the resize listener, if registered, runs
Resize ==
  \E w \in Widths :
    /\ innerWidth' = w
    /\ IF listeners.resize
       THEN handleResize(w)
       ELSE UNCHANGED <<isDesktop, wrapper, items, listeners, instructions>>
    /\ last' = [NoEvent EXCEPT !.ev = "resize",
                  !.crossed = (listeners.resize
                               /\ isDesktop # updateViewportMode(w)),
                  !.before = IF /\ listeners.resize /\ isDesktop
                                /\ ~updateViewportMode(w)
                             THEN [i \in Items |->
                                     <<items[i].left, items[i].top>>]
                             ELSE <<>>]
    /\ UNCHANGED <<menuVars, bootVars, timeVars, stickyVars, windowVars, listVars,
                   live, grab, page, warnings, destroyed, geom, isInitialized, dragState, keyboardDragState,
                   announcer>>

Destroy ==
  /\ destroy
  /\ destroyed' = TRUE
  /\ last' = [NoEvent EXCEPT !.ev = "destroy", !.again = destroyed]
  /\ UNCHANGED <<menuVars, bootVars, timeVars, stickyVars, windowVars, listVars,
                   live, grab, page, warnings, geom, innerWidth, isInitialized, isDesktop, wrapper,
                 dragState, keyboardDragState>>

\* a timeout set by announce() runs; timeouts of equal delay run in the
\* order they were set
Timeout ==
  /\ live.pending # <<>>
  /\ live' = announceTimeout(live)
  /\ last' = [NoEvent EXCEPT !.ev = "timeout"]
  /\ UNCHANGED <<menuVars, bootVars, timeVars, stickyVars, windowVars, listVars,
                 grab, page, warnings, destroyed, geom, innerWidth, isInitialized,
                 isDesktop, wrapper, items, dragState, keyboardDragState,
                 listeners, announcer, instructions>>

Next ==
  \/ MouseDown \/ TouchStart \/ MouseMove \/ TouchMove \/ MouseUp \/ TouchEnd
  \/ KeyDown \/ Resize \/ Destroy

Spec == Init /\ [][Next]_vars

\* the controller with its pointer-downs followed, under pointer and resize
\* events
PointerInit ==
  \E doc \in Documents, g \in Geometries, w \in Widths, data \in Pages :
    /\ constructed(doc, g, w, data)
    /\ grab = [NoGrab EXCEPT !.tracked = TRUE]
    /\ live = NoLive
    /\ NoOtherWidgets

PointerNext ==
  \/ MouseDown \/ TouchStart \/ MouseMove \/ TouchMove \/ MouseUp \/ TouchEnd
  \/ Resize

SpecPointer == PointerInit /\ [][PointerNext]_vars

\* the controller with its live region followed, under keyboard, resize and
\* teardown events
AnnounceInit ==
  \E doc \in Documents, g \in Geometries, w \in Widths, data \in Pages :
    /\ constructed(doc, g, w, data)
    /\ live = [NoLive EXCEPT !.tracked = TRUE] /\ grab = NoGrab
    /\ NoOtherWidgets

AnnounceNext == KeyDown \/ Timeout \/ Resize \/ Destroy

SpecAnnounce == AnnounceInit /\ [][AnnounceNext]_vars

(* ------------------- the DragDropManager, when unused ----------------- *)

\* no DragDropManager has been constructed
NoDragDrop ==
  /\ page = [container |-> FALSE, wrapper |-> FALSE]
  /\ warnings = 0
  /\ destroyed = FALSE
  /\ geom = [cw |-> 0, ch |-> 0, iw |-> 0, ih |-> 0, cLeft |-> 0, cTop |-> 0]
  /\ innerWidth = DesktopBreakpoint
  /\ isInitialized = FALSE
  /\ isDesktop = FALSE
  /\ wrapper = [desktop |-> FALSE, mobile |-> FALSE]
  /\ items = [i \in Items |-> ServedItem(<<Absent, Absent>>)]
  /\ dragState = NoDrag
  /\ keyboardDragState = NoKeyboardDrag
  /\ listeners = [resize |-> FALSE, document |-> FALSE]
  /\ announcer = FALSE
  /\ instructions = 0
  /\ last = NoEvent
  /\ live = NoLive
  /\ grab = NoGrab

(* ---------------------------- MenuDropdown ---------------------------- *)
\* src/assets/js/components/menu/MenuDropdown.ts ("ts") and MenuDropdown.js
\* ("js").  The page is the one of MenuDropdown.test.ts: the first .nav-item
\* holds the toggle button and the .dropdown-menu list with its items.

\* elements of each group (.sticky-note, .window) on the page
NumGroupElements == 2

GroupElements == 1..NumGroupElements

Implementations == {"ts", "js"}

\* which of the three elements the constructor queries exist
MenuDocuments ==
  { [container |-> TRUE, toggle |-> TRUE, menu |-> TRUE],
    [container |-> TRUE, toggle |-> TRUE, menu |-> FALSE],
    [container |-> FALSE, toggle |-> FALSE, menu |-> FALSE] }

\* click targets: the toggle button, the text span inside it, the menu items
\* "Stickies" and "Window", another menu item, the menu list outside its
\* items, the container outside the toggle and the menu, and anything else
ClickTargets ==
  {"toggle", "toggleText", "stickies", "window", "otherItem", "menuList",
   "container", "outside"}

MenuKeys == {"Escape", "Enter"}

\* where the keyboard focus is when a key goes down
FocusTargets == {"toggle", "elsewhere"}

\* the browser's activation behaviour: Enter going down on the focused toggle,
\* a button, is followed by a click on it unless a handler prevented the
\* default, which handleKeydown never does (MenuDropdown.test.ts moves the
\* focus away from the button before it presses Enter)
activatesToggle(doc, key, focus) ==
  key = "Enter" /\ focus = "toggle" /\ doc.container /\ doc.toggle

\* the target is on the page: the toggle and the menu are inside the container
targetExists(doc, target) ==
  CASE target \in {"toggle", "toggleText"} -> doc.container /\ doc.toggle
    [] target \in {"stickies", "window", "otherItem", "menuList"} ->
         doc.container /\ doc.menu
    [] target = "container" -> doc.container
    [] OTHER -> TRUE

\* target.closest('.dropdown-toggle') is not null
closestToggle(target) == target \in {"toggle", "toggleText"}

\* target.closest('.dropdown-item'): the item's trimmed, lower-cased text
closestDropdownItem(target) ==
  IF target \in {"stickies", "window", "otherItem"} THEN <<target>> ELSE Absent

\* this.menu holds the target
inMenu(target) ==
  target \in {"stickies", "window", "otherItem", "menuList"}

\* this.container.contains(target)
containerContains(target) == target # "outside"

\* isOpen.toString()
BoolToString(b) == IF b THEN "true" ELSE "false"

\* an element of a group as served: shown or hidden by its class only
ServedGroupElement(shown) ==
  [open |-> shown, ariaHidden |-> Absent, inert |-> FALSE]

\* a variant that sets aria-expanded and leaves the menu's class alone
updateStateAriaOnly(m) ==
  [m EXCEPT !.expanded = <<BoolToString(m.isOpen)>>]

\* updateState
updateState(m) ==
  [m EXCEPT !.expanded = <<BoolToString(m.isOpen)>>, !.active = m.isOpen]

\* open() and close()
open(m) == updateState([m EXCEPT !.isOpen = TRUE])

close(m) == updateState([m EXCEPT !.isOpen = FALSE])

\* what toggleStickies / toggleWindows do to each element of the group
setGroup(group, state) ==
  [k \in GroupElements |->
     IF state
     THEN [group[k] EXCEPT !.open = TRUE, !.ariaHidden = <<"false">>,
                           !.inert = FALSE]
     ELSE [group[k] EXCEPT !.open = FALSE, !.ariaHidden = <<"true">>,
                           !.inert = TRUE]]

\* announceStateChange: the text goes to #menu-announcements if it exists
announceStateChange(m, itemName, isOpen) ==
  IF m.liveRegion = Absent
  THEN m
  ELSE [m EXCEPT !.liveRegion =
          <<[item |-> itemName,
             change |-> IF isOpen THEN "opened" ELSE "closed"]>>]

\* toggleStickies, with updateMenuItemState('stickies', ..)
toggleStickies(m) ==
  LET state == ~m.stickiesState IN
  announceStateChange(
    [m EXCEPT !.stickiesState = state,
              !.stickies = setGroup(m.stickies, state),
              !.pressed.stickies = <<BoolToString(state)>>],
    "Stickies", state)

\* toggleWindows, with updateMenuItemState('window', ..)
toggleWindows(m) ==
  LET state == ~m.windowsState IN
  announceStateChange(
    [m EXCEPT !.windowsState = state,
              !.windows = setGroup(m.windows, state),
              !.pressed.window = <<BoolToString(state)>>],
    "Windows", state)

\* a variant that closes the dropdown once an item has been handled
handleMenuItemClickCloses(m, target) ==
  LET menuItem == closestDropdownItem(target) IN
  IF menuItem = Absent THEN m
  ELSE CASE menuItem[1] = "stickies" -> close(toggleStickies(m))
         [] menuItem[1] = "window" -> close(toggleWindows(m))
         [] OTHER -> m

\* handleMenuItemClick (MenuDropdown.ts only)
handleMenuItemClick(m, target) ==
  LET menuItem == closestDropdownItem(target) IN
  IF menuItem = Absent THEN m
  ELSE CASE menuItem[1] = "stickies" -> toggleStickies(m)
         [] menuItem[1] = "window" -> toggleWindows(m)
         [] OTHER -> m

\* handleContainerClick
handleContainerClick(m, target) ==
  IF closestToggle(target)
  THEN IF m.isOpen THEN close(m) ELSE open(m)
  ELSE m

\* handleContainerClick called e.stopPropagation()
stopsPropagation(target) == closestToggle(target)

\* a variant that closes an open dropdown on every click
handleOutsideClickAnywhere(m, target) ==
  IF m.isOpen THEN close(m) ELSE m

\* handleOutsideClick
handleOutsideClick(m, target) ==
  LET isClickInside == containerContains(target) IN
  IF ~isClickInside /\ m.isOpen THEN close(m) ELSE m

\* a variant that closes an open dropdown on every key
handleKeydownAnyKey(m, key) ==
  IF m.isOpen THEN close(m) ELSE m

\* handleKeydown
handleKeydown(m, key) ==
  IF key = "Escape" /\ m.isOpen THEN close(m) ELSE m

\* a click event travelling from its target up to the document: the menu's
\* listener, the container's, then the document's unless propagation stopped
dispatchClick(m, target) ==
  LET atMenu == IF m.listeners.menu /\ inMenu(target)
                THEN handleMenuItemClick(m, target) ELSE m
      atContainer == IF m.listeners.container /\ containerContains(target)
                     THEN handleContainerClick(atMenu, target) ELSE atMenu
      stopped == /\ m.listeners.container /\ containerContains(target)
                 /\ stopsPropagation(target)
  IN IF m.listeners.click /\ ~stopped
     THEN handleOutsideClick(atContainer, target)
     ELSE atContainer

\* destroy.  MenuDropdown.js registered handleOutsideClick.bind(this) and
\* passes a new bound function to removeEventListener, which matches no
\* registered listener.
menuDestroy(m) ==
  IF ~m.isInitialized
  THEN m
  ELSE [m EXCEPT !.listeners =
          [container |-> FALSE, menu |-> FALSE, keydown |-> FALSE,
           click |-> IF m.impl = "js" THEN m.listeners.click ELSE FALSE]]

\* the record kept in menuLast: ev the event or method, target the click's
\* target, key the keydown's key, focus where the focus was when the key went
\* down, wasOpen isOpen as the step found it, updated whether open() or
\* close() has run so far, destroyed whether destroy() has, clicks how often
\* handleMenuItemClick has handled a click on the Stickies and on the Window
\* item (0: never, 1: an odd number of times, 2: an even number, not 0)
MenuEvent(ev, target, key, m, updated, wasDestroyed) ==
  [ev |-> ev, target |-> target, key |-> key, focus |-> "",
   wasOpen |-> m.isOpen, updated |-> updated, destroyed |-> wasDestroyed,
   clicks |-> menuLast.clicks]

\* the count of clicks after one more
oneMoreClick(n) == IF n = 1 THEN 2 ELSE 1

\* the counts after a click on target reached the listeners of m
clicksAfter(m, target) ==
  IF m.listeners.menu /\ target \in {"stickies", "window"}
  THEN [menuLast.clicks EXCEPT ![target] = oneMoreClick(@)]
  ELSE menuLast.clicks

\* the state the constructor leaves
MenuInit ==
  \E impl \in Implementations, doc \in MenuDocuments,
     expanded \in {Absent, <<"false">>}, shown \in BOOLEAN \X BOOLEAN,
     region \in BOOLEAN :
    LET ok == ~(~doc.toggle \/ ~doc.menu \/ ~doc.container) IN
    /\ menu = [impl |-> impl,
               doc |-> doc,
               isInitialized |-> ok,
               isOpen |-> FALSE,
               stickiesState |-> TRUE,
               windowsState |-> TRUE,
               expanded |-> expanded,
               active |-> FALSE,
               stickies |-> [k \in GroupElements |->
                               ServedGroupElement(shown[1])],
               windows |-> [k \in GroupElements |->
                              ServedGroupElement(shown[2])],
               pressed |-> [stickies |-> Absent, window |-> Absent],
               liveRegion |-> IF region THEN <<"">> ELSE Absent,
               listeners |-> [container |-> ok,
                              menu |-> ok /\ impl = "ts",
                              keydown |-> ok, click |-> ok]]
    /\ menuLast = [ev |-> "construct", target |-> "", key |-> "",
                   focus |-> "", wasOpen |-> FALSE, updated |-> FALSE,
                   destroyed |-> FALSE,
                   clicks |-> [stickies |-> 0, window |-> 0]]
    /\ boot = NoBoot
    /\ clock = NoClock /\ sticky = NoSticky
    /\ win = NoWindow /\ list = NoList
    /\ NoDragDrop

\* a click somewhere on the page
MenuClick ==
  \E target \in ClickTargets :
    /\ targetExists(menu.doc, target)
    /\ menu' = dispatchClick(menu, target)
    /\ menuLast' = [MenuEvent("click", target, "", menu,
                              menuLast.updated \/ menu'.isOpen # menu.isOpen,
                              menuLast.destroyed)
                      EXCEPT !.clicks = clicksAfter(menu, target)]
    /\ UNCHANGED <<windowVars, listVars, dragVars, bootVars, timeVars, stickyVars>>

\* a keydown on the page, with the click that follows it by default
MenuKeydown ==
  \E key \in MenuKeys, focus \in FocusTargets :
    /\ menu' = LET handled == IF menu.listeners.keydown
                              THEN handleKeydown(menu, key) ELSE menu
               IN IF activatesToggle(menu.doc, key, focus)
                  THEN dispatchClick(handled, "toggle")
                  ELSE handled
    /\ menuLast' = [MenuEvent("keydown", "", key, menu,
                              menuLast.updated \/ menu'.isOpen # menu.isOpen,
                              menuLast.destroyed)
                      EXCEPT !.focus = focus]
    /\ UNCHANGED <<windowVars, listVars, dragVars, bootVars, timeVars, stickyVars>>

\* the public open() and close(), called on an initialized instance
MenuOpen ==
  /\ menu.isInitialized
  /\ menu' = open(menu)
  /\ menuLast' = MenuEvent("open", "", "", menu, TRUE, menuLast.destroyed)
  /\ UNCHANGED <<windowVars, listVars, dragVars, bootVars, timeVars, stickyVars>>

MenuClose ==
  /\ menu.isInitialized
  /\ menu' = close(menu)
  /\ menuLast' = MenuEvent("close", "", "", menu, TRUE, menuLast.destroyed)
  /\ UNCHANGED <<windowVars, listVars, dragVars, bootVars, timeVars, stickyVars>>

MenuDestroy ==
  /\ menu' = menuDestroy(menu)
  /\ menuLast' = MenuEvent("destroy", "", "", menu, menuLast.updated, TRUE)
  /\ UNCHANGED <<windowVars, listVars, dragVars, bootVars, timeVars, stickyVars>>

MenuNext ==
  MenuClick \/ MenuKeydown \/ MenuOpen \/ MenuClose \/ MenuDestroy

SpecMenu == MenuInit /\ [][MenuNext]_vars

(* ------------------------- page initialization ------------------------ *)
\* src/assets/js/main.ts: the DOMContentLoaded handler constructs the four
\* widgets in one try block.

Widgets == {"menu", "drag", "time", "window"}

\* the elements CollapsibleWindow.queryElements looks up
WindowElements == {"container", "body", "collapseButton", "closeButton"}

\* the time display's container and the [data-time] element inside it
TimeDocuments ==
  { [container |-> TRUE, time |-> TRUE],
    [container |-> TRUE, time |-> FALSE],
    [container |-> FALSE, time |-> FALSE] }

\* a variant that constructs the window first
InitOrderWindowFirst == <<"window", "menu", "drag", "time">>

\* the statements of the try block, in order
InitOrder == <<"menu", "drag", "time", "window">>

\* the statements that are inside the try block: all of them
TryBlock == 1..Len(InitOrder)

\* whether the page has every element the widget needs
ElementsPresent(w, doc) ==
  CASE w = "menu" -> doc.menu.toggle /\ doc.menu.menu /\ doc.menu.container
    [] w = "drag" -> ~constructionFails(doc.drag)
    [] w = "time" -> doc.time.container /\ doc.time.time
    [] w = "window" -> doc.window = WindowElements

\* what running the widget's constructor (or TimeDisplay()) comes to:
\*  menu: warns and returns when an element is missing
\*  drag: warns and returns when the container or the wrapper is missing
\*  time: updateDisplay returns when the element is missing; the interval is
\*        set in either case
\*  window: validateElements throws when an element is missing
construct(w, doc) ==
  CASE w = "menu" -> IF ElementsPresent(w, doc) THEN "initialized" ELSE "inert"
    [] w = "drag" -> IF ElementsPresent(w, doc) THEN "initialized" ELSE "inert"
    [] w = "time" -> IF ElementsPresent(w, doc) THEN "initialized" ELSE "inert"
    [] w = "window" -> IF ElementsPresent(w, doc) THEN "initialized"
                                                  ELSE "threw"

\* the state when DOMContentLoaded fires: status is what became of each
\* widget, errors the number of console.error calls, escaped whether an
\* exception left the handler
BootInit ==
  \E m \in MenuDocuments, d \in Documents, t \in TimeDocuments,
     w \in SUBSET WindowElements :
    /\ boot = [phase |-> "try", pc |-> 1,
               doc |-> [menu |-> m, drag |-> d, time |-> t, window |-> w],
               status |-> [x \in Widgets |-> "none"],
               errors |-> 0, escaped |-> FALSE]
    /\ menu = NoMenu /\ menuLast = NoMenuEvent
    /\ clock = NoClock /\ sticky = NoSticky
    /\ win = NoWindow /\ list = NoList
    /\ NoDragDrop

\* one statement of the try block
Statement(w) ==
  /\ boot.phase = "try"
  /\ boot.pc <= Len(InitOrder) /\ InitOrder[boot.pc] = w
  /\ LET outcome == construct(w, boot.doc) IN
     boot' = [boot EXCEPT
                !.status[w] = outcome,
                !.pc = @ + 1,
                !.escaped = (outcome = "threw" /\ boot.pc \notin TryBlock),
                !.phase = IF outcome = "threw"
                          THEN IF boot.pc \in TryBlock THEN "catch" ELSE "done"
                          ELSE IF boot.pc = Len(InitOrder) THEN "done"
                          ELSE "try"]
  /\ UNCHANGED <<windowVars, listVars, dragVars, menuVars, timeVars, stickyVars>>

NewMenuDropdown == Statement("menu")

NewDragDropManager == Statement("drag")

CallTimeDisplay == Statement("time")

NewCollapsibleWindow == Statement("window")

\* the catch block: console.error
CatchError ==
  /\ boot.phase = "catch"
  /\ boot' = [boot EXCEPT !.errors = @ + 1, !.phase = "done"]
  /\ UNCHANGED <<windowVars, listVars, dragVars, menuVars, timeVars, stickyVars>>

BootNext ==
  \/ NewMenuDropdown \/ NewDragDropManager \/ CallTimeDisplay
  \/ NewCollapsibleWindow \/ CatchError

SpecBoot == BootInit /\ [][BootNext]_vars

(* ----------------------------- TimeDisplay ---------------------------- *)
\* src/assets/js/components/time-display/Time-display.ts.  Times are in
\* seconds since the midnight that begins day 0.

\* TIME_DISPLAY_CONFIG.updateInterval (ms)
UpdateInterval == 60000

\* the seconds that pass between two states of the model
ClockStep == 30

\* how many times the model lets ClockStep seconds pass
MaxAdvances == 5

\* the times at which TimeDisplay() is called: 2:05:00 PM, and half a minute
\* before noon and before midnight
StartTimes == {14 * 3600 + 5 * 60, 11 * 3600 + 59 * 60 + 30,
               23 * 3600 + 59 * 60 + 30}

\* the page: whether #local-time-display exists, and whether a [data-time]
\* element is inside it, elsewhere on the page, or nowhere
ClockDocuments ==
  { [container |-> TRUE, element |-> "inside"],
    [container |-> TRUE, element |-> "none"],
    [container |-> TRUE, element |-> "outside"],
    [container |-> FALSE, element |-> "outside"],
    [container |-> FALSE, element |-> "none"] }

\* formatTime: Intl.DateTimeFormat 'en-US' with weekday, month and day (the
\* date, here the day's number), then hour: 'numeric', minute: '2-digit',
\* hour12: true
formatTime(now) ==
  LET hour24 == (now \div 3600) % 24
      minute == (now \div 60) % 60
  IN [date |-> now \div 86400,
      hour |-> IF hour24 % 12 = 0 THEN 12 ELSE hour24 % 12,
      minute |-> <<minute \div 10, minute % 10>>,
      period |-> IF hour24 < 12 THEN "AM" ELSE "PM"]

\* the textContent of a [data-time] element as served: the empty string
EmptyText == [date |-> -1, hour |-> 0, minute |-> <<0, 0>>, period |-> ""]

\* document.querySelector(`${container} [data-time]`) finds an element
timeElement(c) == c.container /\ c.element = "inside"

\* a variant that leaves the loading class on the element
updateDisplayKeepsLoading(c, now) ==
  IF ~timeElement(c) THEN c
  ELSE [c EXCEPT !.text = <<formatTime(now)>>]

\* updateDisplay, run at time now
updateDisplay(c, now) ==
  IF ~timeElement(c) THEN c
  ELSE [c EXCEPT !.text = <<formatTime(now)>>, !.loading = FALSE]

\* a [data-time] element as served: empty, with the loading class
ServedTimeElement(c) == [c EXCEPT !.text = <<EmptyText>>, !.loading = TRUE]

\* the page before TimeDisplay() is called.  called: TimeDisplay() has run;
\* calledAt and nextFire: when, and when its interval timer fires next;
\* ev and fired: the last step, and whether the timer fired in it
TimeInit ==
  \E doc \in ClockDocuments, start \in StartTimes :
    /\ clock = [ev |-> "load", fired |-> FALSE,
                container |-> doc.container, element |-> doc.element,
                text |-> IF doc.element = "none" THEN Absent
                                                     ELSE <<EmptyText>>,
                loading |-> doc.element # "none",
                now |-> start, advances |-> 0,
                called |-> FALSE, calledAt |-> 0, nextFire |-> 0]
    /\ menu = NoMenu /\ menuLast = NoMenuEvent
    /\ boot = NoBoot /\ sticky = NoSticky
    /\ win = NoWindow /\ list = NoList
    /\ NoDragDrop

\* TimeDisplay(): updateDisplay(), then setInterval(updateDisplay, ..)
TimeDisplayCall ==
  /\ ~clock.called
  /\ clock' = [updateDisplay(clock, clock.now) EXCEPT
                 !.ev = "call", !.fired = FALSE, !.called = TRUE,
                 !.calledAt = clock.now,
                 !.nextFire = clock.now + UpdateInterval \div 1000]
  /\ UNCHANGED <<windowVars, listVars, dragVars, menuVars, bootVars, stickyVars>>

\* ClockStep seconds pass; the interval timer fires when it is due
TimeAdvance ==
  /\ clock.advances < MaxAdvances
  /\ LET now == clock.now + ClockStep
         due == clock.called /\ now >= clock.nextFire
         passed == [clock EXCEPT !.now = now, !.advances = @ + 1,
                                 !.ev = "advance", !.fired = due]
     IN clock' = IF due
                 THEN [updateDisplay(passed, now) EXCEPT
                         !.nextFire = @ + UpdateInterval \div 1000]
                 ELSE passed
  /\ UNCHANGED <<windowVars, listVars, dragVars, menuVars, bootVars, stickyVars>>

\* the page changes under the widget: the container or the element is
\* removed, inserted or moved
TimePageChange ==
  \E doc \in ClockDocuments :
    /\ doc # [container |-> clock.container, element |-> clock.element]
    /\ LET moved == [clock EXCEPT !.container = doc.container,
                                  !.element = doc.element,
                                  !.ev = "page", !.fired = FALSE]
       IN clock' = IF doc.element = "none"
                   THEN [moved EXCEPT !.text = Absent, !.loading = FALSE]
                   ELSE IF clock.element = "none"
                   THEN ServedTimeElement(moved)
                   ELSE moved
    /\ UNCHANGED <<windowVars, listVars, dragVars, menuVars, bootVars, stickyVars>>

TimeNext == TimeDisplayCall \/ TimeAdvance \/ TimePageChange

SpecTime == TimeInit /\ [][TimeNext]_vars

(* -------------------------- StickyNotesManager ------------------------ *)
\* src/assets/js/components/stickies/StickyNotesManager.ts

\* number of .sticky-note elements inside the container
NumNotes == 1

Notes == 1..NumNotes

\* STICKY_NOTES.layout (px)
StickyBreakpoint == 768
StickyPadding == 40
NoteWidth == 220
NoteHeight == 150

\* STICKY_NOTES.colors
StickyColors == <<"yellow", "pink", "teal">>

\* values of Math.random(), in quarters: 0, 0.5 and 0.75
Randoms == {0, 2, 3}

\* the boxes getBoundingClientRect reports (half pixels): a 600px x 400px
\* container at (8px, 8px) with notes of the configured size
StickyGeometry ==
  [cw |-> Px(600), ch |-> Px(400), nw |-> Px(NoteWidth), nh |-> Px(NoteHeight),
   cLeft |-> Px(8), cTop |-> Px(8)]

\* pointer positions of move events (clientX, clientY in half pixels)
StickyPointerPositions == { <<0, 0>>, <<Px(300), Px(200)>>, <<Px(900), Px(10)>> }

\* the message of the test's expectation
ContainerNotFound == "Sticky notes container not found"

\* the constructor's console.warn
ElementsNotFound == "Sticky notes elements not found"

\* assignColors, for one note: colors[Math.floor(Math.random() * length)]
assignColor(note, r) ==
  [note EXCEPT !.color = StickyColors[(r * Len(StickyColors)) \div 4 + 1]]

\* positionNotes, for one note, with the two values Math.random() returned
positionNote(note, rx, ry) ==
  LET maxX == StickyGeometry.cw - Px(NoteWidth) - Px(StickyPadding)
      maxY == StickyGeometry.ch - Px(NoteHeight) - Px(StickyPadding)
  IN [note EXCEPT !.left = <<(rx * maxX) \div 4 + Px(StickyPadding)>>,
                  !.top = <<(ry * maxY) \div 4 + Px(StickyPadding)>>]

\* a note as served
ServedNote ==
  [left |-> Absent, top |-> Absent, color |-> "", dragging |-> FALSE,
   pointer |-> FALSE]

\* what init() and handleResize() do to the notes on entering desktop:
\* positionNotes and the note part of bindDragEvents
stickyEnterDesktop(notes, rx, ry) ==
  [n \in Notes |-> [positionNote(notes[n], rx[n], ry[n]) EXCEPT
                      !.pointer = TRUE]]

NoStickyDrag == [isDragging |-> FALSE, currentNote |-> 0, offset |-> <<0, 0>>]

\* the state the constructor leaves
StickyInit ==
  \E doc \in Documents, w \in Widths, rc \in [Notes -> Randoms],
     rx \in [Notes -> Randoms], ry \in [Notes -> Randoms] :
    LET ok == ~(~doc.container \/ ~doc.wrapper)
        desktop == ok /\ w > StickyBreakpoint
        coloured == [n \in Notes |-> IF ok THEN assignColor(ServedNote, rc[n])
                                           ELSE ServedNote]
    IN /\ ~desktop => (\A n \in Notes : rx[n] = 0 /\ ry[n] = 0)
       /\ ~ok => (\A n \in Notes : rc[n] = 0)
       /\ sticky = [ev |-> "construct",
                    doc |-> doc,
                    warned |-> IF ok THEN <<>> ELSE <<ElementsNotFound>>,
                    isInitialized |-> ok,
                    innerWidth |-> w,
                    isDesktop |-> desktop,
                    wrapper |-> IF ok THEN applyLayout(desktop)
                                      ELSE [desktop |-> FALSE, mobile |-> FALSE],
                    notes |-> IF desktop
                              THEN stickyEnterDesktop(coloured, rx, ry)
                              ELSE coloured,
                    dragState |-> NoStickyDrag,
                    listeners |-> [resize |-> ok, document |-> desktop]]
       /\ menu = NoMenu /\ menuLast = NoMenuEvent
       /\ boot = NoBoot /\ clock = NoClock
       /\ win = NoWindow /\ list = NoList
       /\ NoDragDrop

\* note.getBoundingClientRect() as <<left, top>>
noteRect(st, n) ==
  <<StickyGeometry.cLeft + ParseFloatOr0(st.notes[n].left),
    StickyGeometry.cTop + ParseFloatOr0(st.notes[n].top)>>

\* startDrag
stickyStartDrag(st, n, x, y) ==
  IF ~st.isDesktop THEN st
  ELSE LET rect == noteRect(st, n) IN
       [st EXCEPT !.dragState = [isDragging |-> TRUE, currentNote |-> n,
                                 offset |-> <<x - rect[1], y - rect[2]>>],
                  !.notes[n].dragging = TRUE]

\* moveNote
moveNote(st, x, y) ==
  IF st.dragState.currentNote = 0 THEN st
  ELSE LET g == StickyGeometry
           left == Clamp(x - st.dragState.offset[1] - g.cLeft, g.cw, g.nw)
           top == Clamp(y - st.dragState.offset[2] - g.cTop, g.ch, g.nh)
       IN [st EXCEPT !.notes[st.dragState.currentNote].left = <<left>>,
                     !.notes[st.dragState.currentNote].top = <<top>>]

\* endDrag
stickyEndDrag(st) ==
  LET cleared == IF st.dragState.currentNote = 0 THEN st
                 ELSE [st EXCEPT
                         !.notes[st.dragState.currentNote].dragging = FALSE]
  IN [cleared EXCEPT !.dragState = NoStickyDrag]

\* handleResize, run with window.innerWidth already w; rx and ry are the
\* values Math.random() returns to positionNotes
stickyHandleResize(st, w, rx, ry) ==
  LET wasDesktop == st.isDesktop
      nowDesktop == w > StickyBreakpoint
      moded == [st EXCEPT !.isDesktop = nowDesktop]
  IN IF wasDesktop = nowDesktop THEN moded
     ELSE IF nowDesktop
     THEN [moded EXCEPT !.wrapper = applyLayout(TRUE),
                        !.notes = stickyEnterDesktop(st.notes, rx, ry),
                        !.listeners.document = TRUE]
     ELSE [moded EXCEPT !.wrapper = applyLayout(FALSE),
                        !.notes = [n \in Notes |->
                                     [st.notes[n] EXCEPT !.left = Absent,
                                                         !.top = Absent]]]

\* destroy
stickyDestroy(st) ==
  IF ~st.isInitialized THEN st
  ELSE [st EXCEPT !.listeners = [resize |-> FALSE, document |-> FALSE]]

\* mousedown or touchstart on a note, 5px inside its corner
StickyPointerDown ==
  \E n \in Notes :
    /\ sticky.notes[n].pointer
    /\ sticky' = [stickyStartDrag(sticky, n, noteRect(sticky, n)[1] + Px(5),
                                  noteRect(sticky, n)[2] + Px(5))
                    EXCEPT !.ev = "pointerdown"]
    /\ UNCHANGED <<windowVars, listVars, dragVars, menuVars, bootVars, timeVars>>

\* mousemove or touchmove on the document
StickyPointerMove ==
  \E p \in StickyPointerPositions :
    /\ sticky.listeners.document
    /\ sticky' = [(IF sticky.dragState.isDragging
                   THEN moveNote(sticky, p[1], p[2]) ELSE sticky)
                    EXCEPT !.ev = "pointermove"]
    /\ UNCHANGED <<windowVars, listVars, dragVars, menuVars, bootVars, timeVars>>

\* mouseup or touchend on the document
StickyPointerUp ==
  /\ sticky.listeners.document
  /\ sticky' = [stickyEndDrag(sticky) EXCEPT !.ev = "pointerup"]
  /\ UNCHANGED <<windowVars, listVars, dragVars, menuVars, bootVars, timeVars>>

\* the window is resized to width w
StickyResize ==
  \E w \in Widths, rx \in [Notes -> Randoms], ry \in [Notes -> Randoms] :
    /\ sticky.ev # ""
    /\ sticky' = [(IF sticky.listeners.resize
                   THEN stickyHandleResize(sticky, w, rx, ry) ELSE sticky)
                    EXCEPT !.ev = "resize", !.innerWidth = w]
    /\ UNCHANGED <<windowVars, listVars, dragVars, menuVars, bootVars, timeVars>>

StickyDestroy ==
  /\ sticky.ev # ""
  /\ sticky' = [stickyDestroy(sticky) EXCEPT !.ev = "destroy"]
  /\ UNCHANGED <<windowVars, listVars, dragVars, menuVars, bootVars, timeVars>>

StickyNext ==
  \/ StickyPointerDown \/ StickyPointerMove \/ StickyPointerUp
  \/ StickyResize \/ StickyDestroy

SpecSticky == StickyInit /\ [][StickyNext]_vars

(* -------------------------- CollapsibleWindow ------------------------- *)
\* src/assets/js/components/window/CollapsibleWindow.ts

\* the number of status nodes announceToScreenReader may have in the
\* document at once
MaxAnnouncements == 2

\* the pages a window is constructed on: the elements queryElements finds
WindowPages ==
  { WindowElements, WindowElements \ {"closeButton"}, WindowElements \ {"body"} }

\* updateCollapseUI
updateCollapseUI(w) ==
  IF w.isCollapsed
  THEN [w EXCEPT !.bodyCollapse = TRUE, !.ariaExpanded = <<"false">>,
                 !.title = "Expand window (Space or Enter)"]
  ELSE [w EXCEPT !.bodyCollapse = FALSE, !.ariaExpanded = <<"true">>,
                 !.title = "Collapse window (Space or Enter)"]

\* toggleCollapse
toggleCollapse(w) == updateCollapseUI([w EXCEPT !.isCollapsed = ~@])

\* updateExpandUI
updateExpandUI(w) ==
  [w EXCEPT !.containerExpanded = w.isExpanded, !.ariaHidden = <<"false">>]

\* expandWindow, with focusWindow and announceToScreenReader
expandWindow(w) ==
  [updateExpandUI([w EXCEPT !.isExpanded = ~@]) EXCEPT
     !.focused = TRUE, !.announcements = @ + 1]

\* setCollapsed(collapsed)
setCollapsed(w, collapsed) ==
  IF w.isCollapsed # collapsed THEN toggleCollapse(w) ELSE w

\* expand()
expand(w) == IF ~w.isExpanded THEN expandWindow(w) ELSE w

\* getState()
getState(w) == [isCollapsed |-> w.isCollapsed, isExpanded |-> w.isExpanded]

\* the state the constructor leaves: on a page lacking an element it throws
\* from validateElements and there is no instance; otherwise initializeState,
\* setupAccessibility and attachEventListeners have run.  The body is served
\* with or without the window--collapse class.
WindowInit ==
  \E elements \in WindowPages, served \in BOOLEAN, tabindex \in BOOLEAN :
    LET ok == elements = WindowElements IN
    /\ win = [ev |-> "construct", arg |-> FALSE, same |-> FALSE,
              elements |-> elements,
              constructed |-> ok,
              isCollapsed |-> FALSE,
              isExpanded |-> FALSE,
              bodyCollapse |-> served /\ "body" \in elements,
              ariaExpanded |-> IF ok THEN <<"true">> ELSE Absent,
              title |-> IF ok THEN "Collapse window (Space or Enter)" ELSE "",
              containerExpanded |-> FALSE,
              ariaHidden |-> Absent,
              tabindex |-> IF tabindex THEN <<0>>
                           ELSE IF ok THEN <<-1>> ELSE Absent,
              focused |-> FALSE,
              announcements |-> 0,
              listeners |-> [collapse |-> ok, close |-> ok]]
    /\ menu = NoMenu /\ menuLast = NoMenuEvent
    /\ boot = NoBoot /\ clock = NoClock /\ sticky = NoSticky
    /\ list = NoList
    /\ NoDragDrop

\* the record of a step: ev the handler or method, arg the argument of
\* setCollapsed, same whether the step before was the same call
WindowEvent(w, ev, arg) ==
  [w EXCEPT !.ev = ev, !.arg = arg,
            !.same = (win.ev = ev /\ win.arg = arg)]

\* a click on the collapse button: handleCollapse
WindowCollapseClick ==
  /\ win.listeners.collapse
  /\ win' = WindowEvent(toggleCollapse(win), "collapseClick", FALSE)
  /\ UNCHANGED <<dragVars, menuVars, bootVars, timeVars, stickyVars, listVars>>

\* a click on the close button: handleClose
WindowCloseClick ==
  /\ win.listeners.close
  /\ win.announcements < MaxAnnouncements
  /\ win' = WindowEvent(expandWindow(win), "closeClick", FALSE)
  /\ UNCHANGED <<dragVars, menuVars, bootVars, timeVars, stickyVars, listVars>>

WindowSetCollapsed ==
  \E collapsed \in BOOLEAN :
    /\ win.constructed
    /\ win' = WindowEvent(setCollapsed(win, collapsed), "setCollapsed",
                          collapsed)
    /\ UNCHANGED <<dragVars, menuVars, bootVars, timeVars, stickyVars, listVars>>

WindowExpand ==
  /\ win.constructed
  /\ ~win.isExpanded => win.announcements < MaxAnnouncements
  /\ win' = WindowEvent(expand(win), "expand", FALSE)
  /\ UNCHANGED <<dragVars, menuVars, bootVars, timeVars, stickyVars, listVars>>

\* the timeout of announceToScreenReader removes its status node
WindowAnnouncementRemoved ==
  /\ win.announcements > 0
  /\ win' = WindowEvent([win EXCEPT !.announcements = @ - 1], "timeout", FALSE)
  /\ UNCHANGED <<dragVars, menuVars, bootVars, timeVars, stickyVars, listVars>>

\* destroy()
WindowDestroy ==
  /\ win.constructed
  /\ win' = WindowEvent([win EXCEPT !.listeners =
                           [collapse |-> FALSE, close |-> FALSE]],
                        "destroy", FALSE)
  /\ UNCHANGED <<dragVars, menuVars, bootVars, timeVars, stickyVars, listVars>>

WindowNext ==
  \/ WindowCollapseClick \/ WindowCloseClick \/ WindowSetCollapsed
  \/ WindowExpand \/ WindowAnnouncementRemoved \/ WindowDestroy

SpecWindow == WindowInit /\ [][WindowNext]_vars

(* ------------------------------ drag list ----------------------------- *)
\* src/drag-list.ts: initDragList.  An item is known by the number of its
\* element, 1..NumListItems in the order the page serves them.

\* the number of .draggable-item elements in #todo-list
NumListItems == 3

ListElements == 1..NumListItems

\* a draggable of the page that is not an item of the list
Foreign == NumListItems + 1

\* the drop target that is the list element itself
ListTarget == NumListItems + 1

\* the data-id attributes the page serves, per element: distinct ids, an
\* element without one, and two elements with the same one
IdPages ==
  { <<"a", "b", "c", "d">>, <<"a", "", "c", "d">>, <<"a", "a", "c", "d">> }

\* items.splice(index, 1), as the array it leaves
spliceOut(seq, index) ==
  SubSeq(seq, 1, index) \o SubSeq(seq, index + 2, Len(seq))

\* items.splice(index, 0, e)
spliceIn(seq, index, e) ==
  SubSeq(seq, 1, index) \o <<e>> \o SubSeq(seq, index + 1, Len(seq))

\* items.findIndex((i) => i.id === id)
findIndex(l, id) ==
  IF \E k \in 1..Len(l.items) : l.ids[l.items[k]] = id
  THEN (CHOOSE k \in 1..Len(l.items) :
          /\ l.ids[l.items[k]] = id
          /\ \A j \in 1..(k - 1) : l.ids[l.items[j]] # id) - 1
  ELSE -1

\* getInitialData().id of a draggable; a draggable from elsewhere on the page
\* carries an id the list does not know
sourceIdOf(l, source) ==
  IF source = Foreign THEN "z" ELSE l.ids[source]

\* location.current.dropTargets[0].data.index: an item's getData returns the
\* index it had when initDragList ran, the list's returns items.length
destinationIndexOf(l, target) ==
  IF target = ListTarget THEN Len(l.items) ELSE target - 1

\* renderList
renderList(l) == [l EXCEPT !.dom = l.items, !.others = FALSE]

\* a variant that inserts the moved item without taking it out first
monitorOnDropKeepsSource(l, source, target) ==
  LET sourceId == sourceIdOf(l, source)
      startIndex == findIndex(l, sourceId)
      destinationIndex == destinationIndexOf(l, target)
  IN IF sourceId = "" \/ target = 0 \/ startIndex = -1
        \/ startIndex = destinationIndex
     THEN l
     ELSE renderList([l EXCEPT !.items =
            spliceIn(l.items, Min(destinationIndex, Len(l.items)),
                     l.items[startIndex + 1])])

\* the monitor's onDrop; target 0 is a drop on no drop target
monitorOnDrop(l, source, target) ==
  LET sourceId == sourceIdOf(l, source)
      startIndex == findIndex(l, sourceId)
      destinationIndex == destinationIndexOf(l, target)
  IN IF sourceId = "" THEN l
     ELSE IF target = 0 THEN l
     ELSE IF startIndex = -1 THEN l
     ELSE IF startIndex = destinationIndex THEN l
     ELSE LET moved == l.items[startIndex + 1]
              removed == spliceOut(l.items, startIndex)
              lowered == IF destinationIndex > startIndex
                         THEN destinationIndex - 1 ELSE destinationIndex
              finalIndex == Max(0, Min(lowered, Len(removed)))
          IN renderList([l EXCEPT !.items = spliceIn(removed, finalIndex, moved)])

\* the page after initDragList(): without #todo-list it returns at once.
\* items: the array, as element numbers; dom: the list's item children in
\* display order; others: the list has children that are not items;
\* dragging: the elements carrying the dragging class; source: the draggable
\* being dragged (0: none); target, before, start, destination: the last
\* drop's target, the display order it found, and its two indices
ListInit ==
  \E present \in BOOLEAN, ids \in IdPages, others \in BOOLEAN :
    /\ ~present => (ids = <<"a", "b", "c", "d">> /\ ~others)
    /\ list = [ev |-> "init", present |-> present, ids |-> ids,
               items |-> IF present THEN [k \in ListElements |-> k] ELSE <<>>,
               dom |-> [k \in ListElements |-> k],
               others |-> others,
               dragging |-> {},
               source |-> 0, target |-> 0,
               before |-> <<>>, start |-> -1, destination |-> -1]
    /\ menu = NoMenu /\ menuLast = NoMenuEvent
    /\ boot = NoBoot /\ clock = NoClock /\ sticky = NoSticky
    /\ win = NoWindow
    /\ NoDragDrop

\* a drag of an item, or of a draggable from elsewhere, begins: onDragStart
ListDragStart ==
  \E source \in ListElements \cup {Foreign} :
    /\ list.present /\ list.source = 0
    /\ list' = [list EXCEPT !.ev = "dragstart", !.source = source,
                            !.dragging = IF source = Foreign THEN @
                                         ELSE @ \cup {source}]
    /\ UNCHANGED <<dragVars, menuVars, bootVars, timeVars, stickyVars,
                   windowVars>>

\* the drag ends on an item, on the list or on no drop target: the
\* draggable's onDrop and the monitor's onDrop
ListDrop ==
  \E target \in 0..ListTarget :
    /\ list.present /\ list.ev = "dragstart"
    /\ list' = [monitorOnDrop(list, list.source, target) EXCEPT
                  !.ev = "drop", !.target = target, !.source = list.source,
                  !.dragging = @ \ {list.source},
                  !.before = list.dom,
                  !.start = findIndex(list, sourceIdOf(list, list.source)),
                  !.destination = destinationIndexOf(list, target)]
    /\ UNCHANGED <<dragVars, menuVars, bootVars, timeVars, stickyVars,
                   windowVars>>

\* the pointer is released and the next drag may begin
ListIdle ==
  /\ list.present /\ list.ev = "drop" /\ list.source # 0
  /\ list' = [list EXCEPT !.ev = "idle", !.source = 0]
  /\ UNCHANGED <<dragVars, menuVars, bootVars, timeVars, stickyVars,
                 windowVars>>

ListNext == ListDragStart \/ ListDrop \/ ListIdle

SpecList == ListInit /\ [][ListNext]_vars

(* ------------------------------ claims -------------------------------- *)

\* a pointer move was handled while a pointer drag was active
PointerMoved == last.ev = "pointermove" /\ last.owner # 0

\* C1 as stated: after every pointer move handled during a drag, the dragged
\* item's rendered position satisfies 0 <= x <= containerWidth - itemWidth and
\* 0 <= y <= containerHeight - itemHeight, for every container and item size.
C1_ClampLawAsStated ==
  PointerMoved =>
    LET it == items[last.owner] IN
    /\ it.left # Absent /\ it.top # Absent
    /\ 0 <= it.left[1] /\ it.left[1] <= geom.cw - geom.iw
    /\ 0 <= it.top[1] /\ it.top[1] <= geom.ch - geom.ih

\* C1 amended: after every pointer move handled during a drag, the dragged
\* item's rendered position satisfies 0 <= x <= max(0, containerWidth -
\* itemWidth) and 0 <= y <= max(0, containerHeight - itemHeight): the upper
\* bound containerSize - itemSize holds on an axis on which the item is no
\* larger than the container, and the position is 0 on an axis on which it is.
C1_ClampLaw ==
  PointerMoved =>
    LET it == items[last.owner] IN
    /\ it.left # Absent /\ it.top # Absent
    /\ 0 <= it.left[1] /\ it.left[1] <= Max(0, geom.cw - geom.iw)
    /\ 0 <= it.top[1] /\ it.top[1] <= Max(0, geom.ch - geom.ih)

\* a pointer move beyond the right edge left the item at the upper bound
C1_Witness ==
  /\ PointerMoved
  /\ geom.cw > geom.iw
  /\ items[last.owner].left = <<geom.cw - geom.iw>>

\* C2: every position change made by a pointer move (moveItem) or a keyboard
\* arrow move (moveItemKeyboard) writes, in the same step, data-x and data-y
\* equal to the new left and top rounded to the nearest integer.
C2_MirrorLaw ==
  [][\A i \in Items :
       (/\ last'.ev \in {"pointermove", "keydown"}
        /\ (items'[i].left # items[i].left \/ items'[i].top # items[i].top))
       => /\ items'[i].left # Absent /\ items'[i].top # Absent
          /\ items'[i].dataX = <<MathRound(items'[i].left[1])>>
          /\ items'[i].dataY = <<MathRound(items'[i].top[1])>>]_vars

\* a move left the item at 10.5px, mirrored as data-x = 11
C2_Witness ==
  /\ last.ev \in {"pointermove", "keydown"}
  /\ last.owner # 0
  /\ items[last.owner].left = <<21>>
  /\ items[last.owner].dataX = <<11>>

\* a move of the session's item has completed: a mouse-up or touch-end, or a
\* keyboard drop by Enter, Space or Escape
MoveCompleted ==
  \/ last.ev = "pointerup" /\ last.owner # 0
  \/ /\ last.ev = "keydown" /\ last.key \in {"Enter", " ", "Escape"}
     /\ last.owner # 0 /\ ~keyboardDragState.isKeyboardDragging

\* C3: after any move completes, the item that owned the session has a
\* rendered left/top equal to its data-x/data-y, both whole pixels, both in
\* [0, containerSize - itemSize], whatever its initial attributes were and
\* whether or not a move event occurred.  (The range is taken as
\* [0, max(0, containerSize - itemSize)], which the claim's range implies, so
\* that an item larger than its container is not what refutes it.)
C3_PositionInvariant ==
  MoveCompleted =>
    LET it == items[last.owner] IN
    /\ it.left # Absent /\ it.top # Absent
    /\ it.dataX # Absent /\ it.dataY # Absent
    /\ it.left[1] = Px(it.dataX[1]) /\ it.top[1] = Px(it.dataY[1])
    /\ 0 <= it.left[1] /\ it.left[1] <= Max(0, geom.cw - geom.iw)
    /\ 0 <= it.top[1] /\ it.top[1] <= Max(0, geom.ch - geom.ih)

\* the pointer-down target is, or is nested inside, a link, button, input,
\* textarea or select
InteractiveTarget(t) ==
  LET tags == {"A", "BUTTON", "INPUT", "TEXTAREA", "SELECT"} IN
  t.tag \in tags \/ \E k \in 1..Len(t.anc) : t.anc[k] \in tags

\* C4: a mouse-down or touch-start whose target is, or is nested inside, an
\* interactive element never begins a pointer-drag session, never adds the
\* dragging class and never sets aria-grabbed.
C4_InteractivePassthrough ==
  [][(last'.ev = "pointerdown" /\ InteractiveTarget(last'.target))
       => /\ dragState' = dragState
          /\ \A i \in Items : /\ items'[i].dragging = items[i].dragging
                              /\ items'[i].grabbed = items[i].grabbed]_vars

\* a pointer-down on text nested inside a link, in desktop mode, on an item
\* that is not being dragged
C4_Witness ==
  /\ last.ev = "pointerdown"
  /\ InteractiveTarget(last.target) /\ last.target.anc # <<>>
  /\ isDesktop
  /\ ~dragState.isDragging
  /\ ~items[last.item].dragging /\ items[last.item].grabbed = Absent

ActivationKeys == {"Enter", " "}

\* C6: in desktop mode with no keyboard drag active, Enter or Space on an
\* item puts that item in keyboard-drag mode (keyboard-dragging class,
\* aria-grabbed="true"); a second activation key, or Escape, on the same item
\* returns it to the non-dragging state (class absent, aria-grabbed="false",
\* keyboard session inactive).
C6_KeyboardToggle ==
  /\ (/\ last.ev = "keydown" /\ last.key \in ActivationKeys
      /\ isDesktop /\ last.owner = 0)
       => /\ keyboardDragState.isKeyboardDragging
          /\ keyboardDragState.currentItem = last.item
          /\ items[last.item].keyboardDragging
          /\ items[last.item].grabbed = <<"true">>
  /\ (/\ last.ev = "keydown" /\ last.key \in ActivationKeys \cup {"Escape"}
      /\ isDesktop /\ last.owner # 0 /\ last.owner = last.item)
       => /\ keyboardDragState = NoKeyboardDrag
          /\ ~items[last.item].keyboardDragging
          /\ items[last.item].grabbed = <<"false">>

\* Space on the item that owned the keyboard session has dropped it
C6_Witness ==
  /\ last.ev = "keydown" /\ last.key = " "
  /\ isDesktop
  /\ last.owner # 0 /\ last.owner = last.item
  /\ ~items[last.item].keyboardDragging

\* the signed step of an arrow key on each axis, in half pixels
ArrowDelta(key, shift) ==
  LET step == IF shift THEN Px(FastMoveStep) ELSE Px(MoveStep) IN
  CASE key = "ArrowLeft" -> <<-step, 0>>
    [] key = "ArrowRight" -> <<step, 0>>
    [] key = "ArrowUp" -> <<0, -step>>
    [] key = "ArrowDown" -> <<0, step>>

\* the coordinate on the arrow's axis after the step is what it was (0 when
\* the item had no inline offset) plus the arrow's signed step, clamped as in
\* pointer drag
ArrowStepTaken ==
  LET i == last'.item
      d == ArrowDelta(last'.key, last'.shift)
  IN IF last'.key \in {"ArrowLeft", "ArrowRight"}
     THEN items'[i].left =
            <<Clamp(ParseFloatOr0(items[i].left) + d[1], geom.cw, geom.iw)>>
     ELSE items'[i].top =
            <<Clamp(ParseFloatOr0(items[i].top) + d[2], geom.ch, geom.ih)>>

\* an arrow key is delivered to the item that owns the keyboard session
ArrowOnOwner ==
  /\ last'.ev = "keydown" /\ last'.key \in ArrowKeys
  /\ keyboardDragState.isKeyboardDragging
  /\ keyboardDragState.currentItem = last'.item

\* C7 as stated: while an item owns the keyboard-drag session, an Arrow key
\* delivered to it moves it on the arrow's axis, in the arrow's direction, by
\* exactly moveStep, or fastMoveStep with Shift, clamped as in pointer drag.
C7_KeyboardMoveAsStated ==
  [][ArrowOnOwner => ArrowStepTaken]_vars

\* C7 amended: the same, in desktop mode.
C7_KeyboardMove ==
  [][(ArrowOnOwner /\ isDesktop) => ArrowStepTaken]_vars

\* Shift+ArrowRight moved the owner of the keyboard session to the right edge
C7_Witness ==
  /\ last.ev = "keydown" /\ last.key = "ArrowRight" /\ last.shift
  /\ isDesktop
  /\ keyboardDragState.currentItem = last.item
  /\ geom.cw > geom.iw
  /\ items[last.item].left = <<geom.cw - geom.iw>>

\* C8: after construction and after every resize event the controller
\* handles, the wrapper carries exactly one of the desktop and mobile classes,
\* and the desktop class if and only if the viewport width is strictly
\* greater than the breakpoint.
C8_ViewportMode ==
  (isInitialized /\ listeners.resize) =>
    /\ wrapper.desktop # wrapper.mobile
    /\ wrapper.desktop <=> (innerWidth > DesktopBreakpoint)

\* a resize to exactly the breakpoint has switched the wrapper to mobile
C8_Witness ==
  /\ last.ev = "resize" /\ last.crossed
  /\ listeners.resize
  /\ innerWidth = DesktopBreakpoint
  /\ wrapper.mobile /\ ~wrapper.desktop

\* the controller has just entered desktop mode: by construction, or by a
\* resize that crossed the breakpoint upwards
EnteredDesktop ==
  /\ last.ev = "construct" \/ (last.ev = "resize" /\ last.crossed)
  /\ isDesktop

\* C9: on entering desktop mode each item that has both data-x and data-y is
\* rendered at those values, each item lacking either is left unpositioned,
\* and every item gets tabindex=0, role=button, aria-label "Draggable item k"
\* with k its 1-based index, and aria-describedby referencing the
\* instructions node.
C9_DesktopEntry ==
  EnteredDesktop =>
    \A i \in Items :
      LET it == items[i] IN
      /\ (it.dataX # Absent /\ it.dataY # Absent)
           => /\ it.left = <<Px(it.dataX[1])>>
              /\ it.top = <<Px(it.dataY[1])>>
      /\ (it.dataX = Absent \/ it.dataY = Absent)
           => it.left = Absent /\ it.top = Absent
      /\ it.tabindex = <<0>>
      /\ it.role = <<"button">>
      /\ it.ariaLabel = <<i>>
      /\ it.describedby = <<"drag-instructions">> /\ instructions > 0

\* a resize has crossed into desktop with one item positioned from its
\* attributes, off the diagonal, and another lacking an attribute
C9_Witness ==
  /\ last.ev = "resize" /\ EnteredDesktop
  /\ \E i \in Items : /\ items[i].dataX # Absent /\ items[i].dataY # Absent
                      /\ items[i].dataX # items[i].dataY
                      /\ items[i].left # Absent
  /\ \E i \in Items : items[i].dataY = Absent /\ items[i].left = Absent

\* C10: in every state in which the controller is in mobile mode, no item has
\* an inline left or top and no item carries tabindex, role, aria-label or
\* aria-describedby, whatever events preceded the crossing into mobile or
\* follow it.
C10_MobileInvariant ==
  (isInitialized /\ listeners.resize /\ ~isDesktop) =>
    \A i \in Items :
      /\ items[i].left = Absent /\ items[i].top = Absent
      /\ items[i].tabindex = Absent /\ items[i].role = Absent
      /\ items[i].ariaLabel = Absent /\ items[i].describedby = Absent

\* a resize that entered mobile is followed at once by a resize that enters
\* desktop
RoundTrip ==
  /\ last.ev = "resize" /\ last.crossed /\ ~isDesktop
  /\ last'.ev = "resize" /\ last'.crossed

\* C11: for an item that has been moved to (x, y) by pointer or keyboard, a
\* desktop-to-mobile resize followed by a mobile-to-desktop resize restores
\* its rendered left/top to the (x, y) it had before the resizes.  (An item
\* that has an inline position in desktop mode stands for a moved one: a move
\* always leaves both.)
C11_ResizeRoundTrip ==
  [][RoundTrip =>
       \A i \in Items :
         (last.before[i][1] # Absent /\ last.before[i][2] # Absent)
           => /\ items'[i].left = last.before[i][1]
              /\ items'[i].top = last.before[i][2]]_vars

\* the construction failed softly
SoftFailure == ~page.container \/ ~page.wrapper

\* C12: if the container or the wrapper is absent at construction, exactly
\* one warning is logged, no listener is attached to the window, the document
\* or any item, no announcer or instructions node is added to the document,
\* and a later destroy() changes nothing.
C12_SoftConstructionFailure ==
  /\ [](SoftFailure =>
          /\ warnings = 1
          /\ ~isInitialized
          /\ ~listeners.resize /\ ~listeners.document
          /\ \A i \in Items : ~items[i].keydown /\ ~items[i].pointer
          /\ ~announcer /\ instructions = 0)
  /\ [][(SoftFailure /\ last'.ev = "destroy") =>
          UNCHANGED <<isInitialized, isDesktop, wrapper, items, dragState,
                      keyboardDragState, listeners, announcer, instructions,
                      warnings>>]_vars

\* destroy() has run on a controller built on a container without a wrapper
C12_Witness ==
  /\ page.container /\ ~page.wrapper
  /\ last.ev = "destroy"
  /\ warnings = 1 /\ ~announcer

\* C13: after destroy() on an initialized controller, the window resize
\* listener, the document move/up/touch listeners and every item's keydown
\* listener are no longer registered, and neither the announcer nor the
\* instructions node is in the document, whatever happened before.
C13_Teardown ==
  (destroyed /\ isInitialized) =>
    /\ ~listeners.resize /\ ~listeners.document
    /\ \A i \in Items : ~items[i].keydown
    /\ ~announcer /\ instructions = 0

\* destroy() has run in mobile mode during a pointer drag begun in desktop
\* mode, after the instructions node was created
C13_Witness ==
  /\ last.ev = "destroy" /\ isInitialized
  /\ ~isDesktop /\ dragState.isDragging
  /\ instructions = 0

\* C14: a second or further destroy() leaves the document, the listener
\* registrations and the controller state exactly as they were after the
\* first call.
C14_DestroyIdempotent ==
  [][(destroyed /\ last'.ev = "destroy") =>
       UNCHANGED <<isInitialized, isDesktop, wrapper, items, dragState,
                   keyboardDragState, listeners, announcer, instructions,
                   warnings>>]_vars

\* destroy() has run a second time on an initialized controller whose items
\* had listeners
C14_Witness ==
  /\ last.ev = "destroy" /\ last.again /\ isInitialized
  /\ \E i \in Items : items[i].pointer

\* C15: after destroy(), no mouse, touch, keyboard or resize event changes
\* any item's classes, attributes or position, nor the pointer-drag or
\* keyboard-drag session state.
C15_DestroyRemovesAllListeners ==
  [][(destroyed /\ last'.ev # "destroy") =>
       UNCHANGED <<items, dragState, keyboardDragState>>]_vars

\* the items marked as being pointer-dragged and as being keyboard-dragged
PointerDragged ==
  {i \in Items : dragState.currentItem = i /\ items[i].dragging}

KeyboardDragged ==
  {i \in Items : keyboardDragState.currentItem = i /\ items[i].keyboardDragging}

C17_AlwaysTerminable ==
  dragState.isDragging => listeners.document

\* C18: whenever a keyboard-drag session ends, the announced message is
\* "Item N dropped at position X, Y." with N the item's 1-based index and
\* X, Y integers in [0, containerSize - itemSize] that equal the item's data-x
\* and data-y, including when no arrow key was pressed.  (The range is taken
\* as [0, max(0, containerSize - itemSize)].)
C18_DropAnnouncement ==
  (/\ last.ev = "keydown" /\ last.owner # 0
   /\ ~keyboardDragState.isKeyboardDragging) =>
    LET it == items[last.owner] IN
    /\ last.msg.kind = "dropped"
    /\ last.msg.index = last.owner
    /\ 0 <= last.msg.x /\ Px(last.msg.x) <= Max(0, geom.cw - geom.iw)
    /\ 0 <= last.msg.y /\ Px(last.msg.y) <= Max(0, geom.ch - geom.ih)
    /\ it.dataX = <<last.msg.x>>
    /\ it.dataY = <<last.msg.y>>

\* C19: on DOMContentLoaded, the absence of the elements of any widget never
\* prevents the other widgets from being initialized: when the handler has
\* finished, every widget whose elements are on the page is initialized and
\* every widget's constructor has run; and no exception escapes the handler.
C19_InitializationIsolation ==
  /\ boot.phase # "" => ~boot.escaped
  /\ boot.phase = "done" =>
       \A w \in Widgets :
         /\ boot.status[w] # "none"
         /\ ElementsPresent(w, boot.doc) => boot.status[w] = "initialized"

\* the handler has finished on a page without the window's elements and
\* without the drag container: the menu and the clock are initialized and
\* the window's exception was caught
C19_Witness ==
  /\ boot.phase = "done"
  /\ boot.status["window"] = "threw" /\ boot.errors = 1
  /\ boot.status["drag"] = "inert"
  /\ boot.status["menu"] = "initialized"
  /\ boot.status["time"] = "initialized"

\* a click on the toggle, or on the text inside it, reached the container's
\* listener
ToggleClicked ==
  /\ menuLast'.ev = "click" /\ closestToggle(menuLast'.target)
  /\ menu.listeners.container

\* C20: the dropdown starts closed; each click on the toggle flips it between
\* closed and open; and once open() or close() has run, the toggle's
\* aria-expanded equals the open state ("true"/"false") and the menu carries
\* the active class if and only if the dropdown is open.
C20_MenuToggle ==
  /\ [](menuLast.ev = "construct" => ~menu.isOpen)
  /\ [][ToggleClicked => menu'.isOpen = ~menu.isOpen]_vars
  /\ [](menuLast.ev # "" /\ menuLast.updated =>
          /\ menu.expanded = <<BoolToString(menu.isOpen)>>
          /\ menu.active = menu.isOpen)

\* a second click on the toggle has closed the dropdown again
C20_Witness ==
  /\ menuLast.ev = "click" /\ menuLast.target = "toggle"
  /\ menuLast.wasOpen /\ ~menu.isOpen
  /\ menu.expanded = <<"false">> /\ ~menu.active
  /\ menu.listeners.container

\* the targets inside the container that are not on the toggle
InsideNotToggle == {"stickies", "window", "otherItem", "menuList", "container"}

\* C21: while the dropdown is open, a click whose target lies outside the
\* container closes it, and a click whose target lies inside the container
\* but not on the toggle leaves it open; a click outside while it is closed
\* changes nothing.  (The outside-click listener is the document's, so the
\* first part is about a document on which it is registered.)
C21_OutsideClick ==
  [][menuLast'.ev = "click" =>
       /\ (menuLast'.target = "outside" /\ menu.isOpen /\ menu.listeners.click)
            => /\ ~menu'.isOpen
               /\ menu'.expanded = <<"false">> /\ ~menu'.active
       /\ (menuLast'.target \in InsideNotToggle /\ menu.isOpen)
            => menu'.isOpen
       /\ (menuLast'.target = "outside" /\ ~menu.isOpen)
            => menu' = menu]_vars

\* a click outside has closed the open dropdown
C21_Witness ==
  /\ menuLast.ev = "click" /\ menuLast.target = "outside"
  /\ menuLast.wasOpen /\ ~menu.isOpen
  /\ menu.expanded = <<"false">>

\* the parts of C22 about Escape: Escape closes an open dropdown and changes
\* nothing on a closed one
EscapeLaw ==
  (menuLast'.ev = "keydown" /\ menuLast'.key = "Escape") =>
    /\ (menu.isOpen /\ menu.listeners.keydown) => ~menu'.isOpen
    /\ ~menu.isOpen => menu' = menu

C23_MenuTeardown ==
  [][(menuLast.destroyed /\ menuLast'.ev \in {"click", "keydown"}) =>
       /\ menu'.isOpen = menu.isOpen
       /\ menu'.expanded = menu.expanded
       /\ menu'.active = menu.active]_vars

\* the interval timer is due in the step: a whole number of intervals has
\* passed since TimeDisplay() was called
IntervalElapsed ==
  /\ clock'.ev = "advance" /\ clock.called
  /\ ((clock'.now - clock.calledAt) * 1000) % UpdateInterval = 0

\* the element shows the time t, formatted, without the loading class if it
\* is found, and is as it was if it is not
Displayed(t) ==
  IF clock.container /\ clock.element = "inside"
  THEN clock'.text = <<formatTime(t)>> /\ ~clock'.loading
  ELSE clock'.text = clock.text /\ clock'.loading = clock.loading

\* C24: a call to TimeDisplay() writes the formatted current time into the
\* time element and removes its loading class at once, and writes the
\* then-current time again after every updateInterval milliseconds; whenever
\* the container or the time element is absent, an update changes nothing.
C24_TimeDisplay ==
  [][/\ clock'.ev = "call" => Displayed(clock.now)
     /\ IntervalElapsed => (clock'.fired /\ Displayed(clock'.now))]_vars

\* the timer has fired after midnight and the element shows 12:00 AM of the
\* next day
C24_Witness ==
  /\ clock.ev = "advance" /\ clock.fired
  /\ clock.text # Absent
  /\ clock.text[1].date = 1 /\ clock.text[1].hour = 12
  /\ clock.text[1].minute = <<0, 0>> /\ clock.text[1].period = "AM"
  /\ ~clock.loading

\* C25: when the container selector matches no element, construction logs
\* the warning 'Sticky notes container not found' and attaches no listeners.
C25_StickySoftFailure ==
  (sticky.ev # "" /\ ~sticky.doc.container) =>
    /\ sticky.warned = <<ContainerNotFound>>
    /\ ~sticky.listeners.resize /\ ~sticky.listeners.document
    /\ \A n \in Notes : ~sticky.notes[n].pointer

\* a session-ending key is delivered to an item other than the one that owns
\* the keyboard session
EndKeyOnOtherItem ==
  /\ last'.ev = "keydown" /\ last'.key \in {"Enter", " ", "Escape"}
  /\ keyboardDragState.isKeyboardDragging
  /\ keyboardDragState.currentItem # 0
  /\ last'.item # keyboardDragState.currentItem

\* C26: a keyboard-drag session owned by item A is ended only by an
\* activation key or Escape delivered to A itself; an activation key or
\* Escape delivered to a different item B leaves A in keyboard-drag mode
\* (class, aria-grabbed and session owner unchanged).
C26_SessionOwnership ==
  [][EndKeyOnOtherItem =>
       LET a == keyboardDragState.currentItem IN
       /\ keyboardDragState' = keyboardDragState
       /\ items'[a].keyboardDragging = items[a].keyboardDragging
       /\ items'[a].grabbed = items[a].grabbed]_vars

\* the step is an Enter, Space or Escape keydown handled in desktop mode
EndKeyHandled ==
  /\ last'.ev = "keydown" /\ last'.key \in {"Enter", " ", "Escape"}
  /\ isDesktop

\* C27: an active keyboard-drag session is never ended by focus loss; it
\* remains active, with the same owner, across every event other than an
\* Enter, Space or Escape keydown handled in desktop mode.
C27_SessionPersistence ==
  [][(keyboardDragState.isKeyboardDragging /\ ~EndKeyHandled) =>
       keyboardDragState' = keyboardDragState]_vars

\* focus has left the owner of an active session: Tab was pressed on it, or
\* a key other than Enter, Space and Escape reached another item
C27_Witness ==
  /\ last.ev = "keydown"
  /\ last.key = "Tab" \/ (last.key \in ArrowKeys /\ last.item # last.owner)
  /\ isDesktop
  /\ last.owner # 0
  /\ keyboardDragState.isKeyboardDragging
  /\ keyboardDragState.currentItem = last.owner

\* C28: during a keyboard drag, ArrowLeft/ArrowRight leave the item's top and
\* data-y unchanged and ArrowUp/ArrowDown leave its left and data-x unchanged,
\* for every starting position the item can have.
C28_ArrowOneAxis ==
  [][(ArrowOnOwner /\ isDesktop) =>
       LET i == last'.item IN
       IF last'.key \in {"ArrowLeft", "ArrowRight"}
       THEN items'[i].top = items[i].top /\ items'[i].dataY = items[i].dataY
       ELSE items'[i].left = items[i].left /\ items'[i].dataX = items[i].dataX]_vars

\* C29: a resize event that does not cross the breakpoint changes no wrapper
\* or item class, no attribute, no inline position, no listener registration
\* and no session state.
C29_ResizeWithoutCrossing ==
  [][(last'.ev = "resize" /\ isDesktop = updateViewportMode(innerWidth')) =>
       UNCHANGED <<isDesktop, wrapper, items, listeners, announcer,
                   instructions, dragState, keyboardDragState>>]_vars

\* the resize listener ran in desktop mode without a crossing while an item
\* was positioned and in keyboard-drag mode
C29_Witness ==
  /\ last.ev = "resize" /\ ~last.crossed
  /\ listeners.resize /\ isDesktop
  /\ keyboardDragState.isKeyboardDragging
  /\ \E i \in Items : items[i].keyboardDragging /\ items[i].left # Absent

\* C30: while the controller is in mobile mode, a mouse-down, touch-start or
\* keydown on an item never starts a pointer-drag or keyboard-drag session
\* and never adds the dragging or keyboard-dragging class or aria-grabbed to
\* any item, including after a desktop-to-mobile crossing that left the item
\* listeners attached.
C30_MobileDisablesDragging ==
  [][(~isDesktop /\ last'.ev \in {"pointerdown", "keydown"}) =>
       /\ dragState'.isDragging => dragState.isDragging
       /\ keyboardDragState'.isKeyboardDragging =>
            keyboardDragState.isKeyboardDragging
       /\ dragState' = dragState /\ keyboardDragState' = keyboardDragState
       /\ \A i \in Items :
            /\ items'[i].dragging => items[i].dragging
            /\ items'[i].keyboardDragging => items[i].keyboardDragging
            /\ items'[i].grabbed = items[i].grabbed]_vars

\* in mobile mode an item that kept its listener from an earlier desktop
\* phase received a pointer-down on a non-interactive target and no session
\* began
C30_Witness ==
  /\ last.ev = "pointerdown"
  /\ ~isDesktop /\ isInitialized
  /\ items[last.item].pointer
  /\ ~isClickableElement(last.target)
  /\ ~dragState.isDragging /\ ~items[last.item].dragging

\* C31: each announcement first empties the live region and sets the message
\* only after the delay; once all pending delays have elapsed the live
\* region's text equals the most recent announcement.
C31_Announcer ==
  [][/\ (live.tracked /\ last'.ev = "keydown" /\ last'.msg # NoMessage) =>
          /\ live'.text = NoMessage
          /\ live'.pending = Append(live.pending, last'.msg)
     /\ (live'.tracked /\ live'.pending = <<>> /\ live'.latest # NoMessage) =>
          live'.text = live'.latest]_vars

\* a grab was followed by a drop within the delay, both delays have elapsed
\* and the region reads the drop's message
C31_Witness ==
  /\ live.tracked /\ live.overlapped
  /\ last.ev = "timeout" /\ live.pending = <<>>
  /\ live.text.kind = "dropped" /\ live.text = live.latest

\* C32: in every reachable state the document contains at most one
\* instructions node, and every item that carries aria-describedby references
\* an instructions node that is present in the document.
C32_SharedInstructions ==
  /\ instructions <= 1
  /\ \A i \in Items :
       items[i].describedby # Absent =>
         (items[i].describedby = <<"drag-instructions">> /\ instructions > 0)

\* a pointer move is handled during a pointer drag
DragMove == last'.ev = "pointermove" /\ last'.owner # 0 /\ dragState.isDragging

\* the clamp of the specification: v held within [0, size - itemSize]
ClampTo(v, size, itemSize) ==
  IF v < 0 THEN 0 ELSE IF v > size - itemSize THEN Max(0, size - itemSize) ELSE v

\* C33: during a pointer drag, after each mouse-move or touch-move the item's
\* position equals clamp(pointerPosition - capturedOffset - containerOrigin)
\* on each axis, where capturedOffset is the pointer-to-item-corner offset
\* taken at pointer-down; the item is displaced by exactly the pointer's
\* displacement since pointer-down whenever that result lies within the
\* container bounds.
C33_PointerMove ==
  [][(grab.tracked /\ DragMove) =>
       LET i == last'.owner
           p == last'.pointer
           capturedOffset == <<grab.pointer[1] - grab.corner[1],
                               grab.pointer[2] - grab.corner[2]>>
           x == p[1] - capturedOffset[1] - geom.cLeft
           y == p[2] - capturedOffset[2] - geom.cTop
       IN /\ grab.item = i
          /\ items'[i].left = <<ClampTo(x, geom.cw, geom.iw)>>
          /\ items'[i].top = <<ClampTo(y, geom.ch, geom.ih)>>
          /\ (0 <= x /\ x <= geom.cw - geom.iw) =>
               geom.cLeft + items'[i].left[1] =
                 grab.corner[1] + (p[1] - grab.pointer[1])
          /\ (0 <= y /\ y <= geom.ch - geom.ih) =>
               geom.cTop + items'[i].top[1] =
                 grab.corner[2] + (p[2] - grab.pointer[2])]_vars

\* a pointer move has carried the dragged item to the right, short of the
\* container's edge, by the distance the pointer travelled
C33_Witness ==
  /\ grab.tracked /\ last.ev = "pointermove" /\ last.owner # 0
  /\ grab.item = last.owner
  /\ last.pointer[1] > grab.pointer[1]
  /\ items[last.owner].left # Absent
  /\ items[last.owner].left[1] < geom.cw - geom.iw
  /\ geom.cLeft + items[last.owner].left[1] =
       grab.corner[1] + (last.pointer[1] - grab.pointer[1])

\* C34: in every reachable state, an item carries aria-grabbed="true" if and
\* only if it is the current item of an active pointer-drag session or of an
\* active keyboard-drag session.
C34_GrabbedConsistency ==
  \A i \in Items :
    items[i].grabbed = <<"true">> <=>
      \/ dragState.isDragging /\ dragState.currentItem = i
      \/ keyboardDragState.isKeyboardDragging
           /\ keyboardDragState.currentItem = i

\* every element of the group is shown: open class, aria-hidden="false", no
\* inert attribute
GroupShown(group) ==
  \A k \in GroupElements :
    group[k].open /\ group[k].ariaHidden = <<"false">> /\ ~group[k].inert

\* a click on a menu item is handled by handleMenuItemClick
ItemClicked(item) ==
  /\ menuLast'.ev = "click" /\ menuLast'.target = item
  /\ menu.listeners.menu

\* C35: after any sequence of handled clicks on the 'Stickies' and 'Window'
\* menu items containing at least one click on a given item, every element of
\* that item's group is shown if and only if the item has been clicked an
\* even number of times, the item's aria-pressed equals that visibility
\* state, and a click on one item never changes the other group's elements
\* or the dropdown's open state.
C35_VisibilityToggles ==
  [][/\ menuLast'.clicks.stickies # 0 =>
          /\ GroupShown(menu'.stickies) <=> menuLast'.clicks.stickies = 2
          /\ menu'.pressed.stickies =
               <<BoolToString(menuLast'.clicks.stickies = 2)>>
     /\ menuLast'.clicks.window # 0 =>
          /\ GroupShown(menu'.windows) <=> menuLast'.clicks.window = 2
          /\ menu'.pressed.window =
               <<BoolToString(menuLast'.clicks.window = 2)>>
     /\ ItemClicked("stickies") =>
          /\ menu'.windows = menu.windows
          /\ menu'.pressed.window = menu.pressed.window
          /\ menu'.isOpen = menu.isOpen /\ menu'.active = menu.active
          /\ menu'.expanded = menu.expanded
     /\ ItemClicked("window") =>
          /\ menu'.stickies = menu.stickies
          /\ menu'.pressed.stickies = menu.pressed.stickies
          /\ menu'.isOpen = menu.isOpen /\ menu'.active = menu.active
          /\ menu'.expanded = menu.expanded]_vars

\* with the dropdown open, Stickies has been clicked an even number of times
\* and Window an odd number: the sticky notes are shown, the windows hidden
C35_Witness ==
  /\ menuLast.ev = "click" /\ menuLast.target = "stickies"
  /\ menuLast.clicks = [stickies |-> 2, window |-> 1]
  /\ menu.isOpen
  /\ GroupShown(menu.stickies) /\ ~GroupShown(menu.windows)
  /\ menu.pressed = [stickies |-> <<"true">>, window |-> <<"false">>]

\* the fields of a window other than the record of the step
WindowFields(w) == [w EXCEPT !.ev = "", !.arg = FALSE, !.same = FALSE]

\* C36: after any sequence of collapse-button clicks and setCollapsed(c)
\* calls, the window body carries the window--collapse class if and only if
\* getState().isCollapsed is true and the collapse button's aria-expanded is
\* the negation of isCollapsed; setCollapsed(c) always leaves isCollapsed
\* equal to c and calling it twice with the same c has the same effect as
\* calling it once.
C36_CollapseState ==
  /\ [](win.ev # "" /\ win.constructed =>
          /\ win.bodyCollapse <=> getState(win).isCollapsed
          /\ win.ariaExpanded = <<BoolToString(~getState(win).isCollapsed)>>)
  /\ [][win'.ev = "setCollapsed" =>
          /\ getState(win').isCollapsed = win'.arg
          /\ win'.same => WindowFields(win') = WindowFields(win)]_vars

\* where element e stands in the sequence seq (0 if nowhere)
PositionIn(seq, e) ==
  IF \E k \in 1..Len(seq) : seq[k] = e
  THEN CHOOSE k \in 1..Len(seq) : seq[k] = e
  ELSE 0

\* seq holds every item of the list exactly once
HoldsEachItemOnce(seq) ==
  /\ Len(seq) = NumListItems
  /\ \A e \in ListElements :
       Cardinality({k \in 1..Len(seq) : seq[k] = e}) = 1

\* the last drop had an unknown source id, no drop target, or a destination
\* index equal to the source's index
IneffectiveDrop ==
  /\ list.ev = "drop"
  /\ \/ list.start = -1
     \/ list.target = 0
     \/ list.destination = list.start

\* C37: after any sequence of drops handled by initDragList's monitor, the
\* list holds exactly the same items as at initialization, each exactly once,
\* and a drop with an unknown source id, no drop target, or a destination
\* index equal to the source's index leaves the order unchanged.
C37_ReorderPreservesItems ==
  list.present =>
    /\ HoldsEachItemOnce(list.items)
    /\ HoldsEachItemOnce(list.dom)
    /\ IneffectiveDrop => list.dom = list.before

\* after an earlier reorder, a drop has moved an item and the list still
\* holds each item once
C37_Witness ==
  /\ list.present /\ list.ev = "drop"
  /\ list.before # [k \in ListElements |-> k]
  /\ list.dom # list.before
  /\ HoldsEachItemOnce(list.dom)

\* C38: after any sequence of earlier reorders, dropping a source item onto a
\* different target item places the source immediately before that target in
\* the list as currently displayed, and dropping it onto the list itself
\* places it at the end of the list.
C38_DropPlacement ==
  (/\ list.ev = "drop" /\ list.source \in ListElements
   /\ list.ids[list.source] # "") =>
    /\ (list.target \in ListElements /\ list.target # list.source) =>
         PositionIn(list.dom, list.source) + 1 =
           PositionIn(list.dom, list.target)
    /\ list.target = ListTarget =>
         PositionIn(list.dom, list.source) = NumListItems

====
